---- MODULE Spec2Model ----
(***************************************************************************)
(* Model of @stripe-sdk/core's webhook subsystem:                          *)
(*   src/src/server/stripe-client.ts   initStripe / getStripe / getConfig  *)
(*   src/src/server/webhooks/index.ts  createWebhookHandler, the App       *)
(*       Router adapter (POST), the Pages Router adapter (webhookRoute)    *)
(*       and the raw body reader (getRawBody).                             *)
(* index.ts holds two versions of the module (lines 1-189 and 191-389);    *)
(* the adapters of the second one are modelled by the *_other definitions. *)
(* Spec is the webhook subsystem. ServerSpec is the server functions       *)
(* (utils/errors.ts, validators, payments, subscriptions, customers), the   *)
(* actions of createActions and the route helpers that take authorize.     *)
(* TwinSpec is two dispatchers of one process given the same request.      *)
(***************************************************************************)
EXTENDS Integers, Sequences, FiniteSets, TLC

\* ---------------------------------------------------------------- values
NULL == "null"
UNDEF == "undefined"

\* bounds of the model
MaxChunks == 2
MaxDeliveries == 2
MaxCalls == 2

MAX_BODY_SIZE == 1024 * 1024

\* secrets a caller may pass as config.secret / initStripe({webhookSecret})
ConfigSecrets == {UNDEF, "", "whsec_custom"}
GlobalSecrets == {UNDEF, "whsec_test_mock", "whsec_rotated"}

EventTypes == {"payment_intent.succeeded", "unknown.event"}
HandlerMaps == SUBSET {"payment_intent.succeeded"}

NoEvent == [id |-> "none", type |-> "none"]
Events == {[id |-> "evt_123", type |-> t] : t \in EventTypes}

\* thrown values: Error instances and non-Error values (a thrown string)
NoError == [cls |-> "none", msg |-> ""]
Err(m) == [cls |-> "Error", msg |-> m]
SignatureErrors == {Err("Invalid signature"), [cls |-> "string", msg |-> "bad sig"]}
HandlerErrors == {Err("Handler failed"), [cls |-> "string", msg |-> "boom"]}
CallbackErrors == {Err("callback failed")}
NotInitialized == Err("[@stripe-sdk/core] Stripe not initialized. Call initStripe({ secretKey, publishableKey }) first.")
SecretRequired == Err("[@stripe-sdk/core] Webhook secret is required. Pass it via config.secret or initStripe({ webhookSecret }).")
BodyTooLarge == Err("Webhook body too large")
CannotReadBody == Err("Cannot read raw body from request")
StreamError == Err("socket hang up")

\* A body is UTF-8 text made of `ascii` one-byte characters and `astral`
\* four-byte characters (two UTF-16 code units each once decoded).
Body(a, q) == [ascii |-> a, astral |-> q]
ByteLength(b) == b.ascii + 4 * b.astral
StringLength(b) == b.ascii + 2 * b.astral
NoBody == Body(0, 0)
Bodies == {Body(8, 0), Body(MAX_BODY_SIZE, 0), Body(MAX_BODY_SIZE + 1, 0),
           Body(MAX_BODY_SIZE - 2, 1)}
Signatures == {"sig_123", "bad_sig"}

\* JavaScript truthiness of an optional string
Truthy(s) == s # UNDEF /\ s # NULL /\ s # ""

VARIABLES
    stripeInstance,  \* stripe-client.ts: module variable (NULL or the client)
    currentConfig,   \* stripe-client.ts: module variable (NULL or the config)
    config,          \* WebhookConfig closed over by the dispatcher (or NULL)
    webhookSecret,   \* secret resolved by createWebhookHandler
    ctorError,       \* error thrown by the last createWebhookHandler call
    ctorArg,         \* configuration passed to the last createWebhookHandler call
    req,             \* the request / dispatch in flight
    pc,              \* position of the request in flight
    event,           \* event produced by constructEvent for this dispatch
    calls,           \* calls made during this request, in order
    dispatch,        \* how handleWebhook settled
    response,        \* HTTP response sent by the adapter
    console,         \* messages written with console.error
    reader,          \* state of getRawBody's promise and stream listeners
    twin,            \* a second dispatcher (its closure) and the first one's outcome
    invocation,      \* the server function, action or route call in flight
    trace,           \* what that call did, in order: callbacks, body parsing, Stripe calls
    outcome,         \* what that call returned, threw or answered
    remote,          \* Stripe's side: the cancel_at_period_end values last requested
    deliveries,      \* the dispatches completed so far, in order
    other,           \* the locals of a second dispatch in flight through the dispatcher
    hook             \* state of a mounted usePayment / useSetupIntent hook

vars == <<stripeInstance, currentConfig, config, webhookSecret, ctorError, ctorArg,
          req, pc, event, calls, dispatch, response, console, reader,
          twin, invocation, trace, outcome, remote, deliveries, other, hook>>

clientVars == <<stripeInstance, currentConfig>>
ctorVars == <<config, webhookSecret, ctorError, ctorArg>>
requestVars == <<req, pc, event, calls, dispatch, response, console, reader>>
serverVars == <<invocation, trace, outcome, remote>>
restVars == <<deliveries, other, hook>>

\* ---------------------------------------------------------------- records
\* null for the two module variables of stripe-client.ts and for "no dispatcher"
NoInstance == [secretKey |-> NULL]
NoConfig == [secretKey |-> NULL, webhookSecret |-> UNDEF]
NoWebhookConfig == [secret |-> UNDEF, handlers |-> {}, onError |-> FALSE,
                    onUnhandledEvent |-> FALSE, built |-> FALSE]

\* content-length header: absent, or a text parseInt reads as `value`, or a
\* text parseInt reads as NaN
NoHeader == [present |-> FALSE, nan |-> FALSE, value |-> 0]
Digits(n) == [present |-> TRUE, nan |-> FALSE, value |-> n]
Garbage == [present |-> TRUE, nan |-> TRUE, value |-> 0]

NoReq == [entry |-> "none", version |-> 1, method |-> "POST", contentLength |-> NoHeader,
          body |-> NoBody, bodyKind |-> "none", signature |-> NULL]

\* A call made during a request: the function, its arguments (body, signature,
\* secret, event, error as they apply), whether it has completed and what it threw.
Call(fn, b, s, k, ev, er) ==
    [fn |-> fn, body |-> b, signature |-> s, secret |-> k, event |-> ev, error |-> er,
     done |-> FALSE, threw |-> NoError]
Completed(c, thrown) == [c EXCEPT !.done = TRUE, !.threw = thrown]
\* constructEvent is synchronous: it is logged with what it returned or threw
VerifyCall(b, s, k, ev, thrown) ==
    Completed(Call("constructEvent", b, s, k, ev, NoError), thrown)
HandlerCall(ev) == Call("handler", NoBody, NULL, NULL, ev, NoError)
OnErrorCall(er, ev) == Call("onError", NoBody, NULL, NULL, ev, er)
OnUnhandledCall(ev) == Call("onUnhandledEvent", NoBody, NULL, NULL, ev, NoError)
\* the awaited call (the last one logged) completes
CompleteLast(log, thrown) == [log EXCEPT ![Len(log)] = Completed(@, thrown)]

NotSettled == [kind |-> "none", received |-> FALSE, type |-> "none", error |-> NoError]
Returned(t) == [kind |-> "returned", received |-> TRUE, type |-> t, error |-> NoError]
Raised(e) == [kind |-> "raised", received |-> FALSE, type |-> "none", error |-> e]

\* what the adapter has sent for the request: the last response and how many
\* responses were sent
NoResponse == [status |-> 0, json |-> "none", error |-> "", type |-> "", sent |-> 0]
ErrorResponse(st, m) == [status |-> st, json |-> "error", error |-> m, type |-> "", sent |-> 1]
ResultResponse(r) == [status |-> 200, json |-> "result", error |-> "", type |-> r.type, sent |-> 1]
EmptyResponse(st) == [status |-> st, json |-> "none", error |-> "", type |-> "", sent |-> 1]

NoReader == [promise |-> "none", error |-> NoError, body |-> NoBody, chunks |-> <<>>,
             totalLength |-> 0, rejected |-> FALSE, events |-> 0, open |-> FALSE]

\* no second dispatch in flight; no hook mounted
NoDispatch == [pc |-> "none"]
NoHook == [kind |-> "none"]

\* no second dispatcher yet
NoTwin == [phase |-> 0, arg |-> NoWebhookConfig, config |-> NoWebhookConfig,
           webhookSecret |-> UNDEF, client |-> <<NoInstance, NoConfig>>, req |-> NoReq,
           calls |-> <<>>, dispatch |-> NotSettled, response |-> NoResponse,
           console |-> <<>>]

\* ---------------------------------------------------------------- stripe-client.ts
\* faulty variant: a dispatcher that took its secret from the process-wide
\* configuration follows a later initStripe
initStripe_rebinding(cfg) ==
    /\ currentConfig' = cfg
    /\ stripeInstance' = [secretKey |-> cfg.secretKey]
    /\ webhookSecret' = IF config.built /\ config.secret = UNDEF /\ Truthy(cfg.webhookSecret)
                        THEN cfg.webhookSecret ELSE webhookSecret
    /\ UNCHANGED <<twin, serverVars, restVars, config, ctorError, ctorArg, req, pc, event, calls, dispatch, response, console, reader>>

initStripe(cfg) ==
    /\ currentConfig' = cfg
    /\ stripeInstance' = [secretKey |-> cfg.secretKey]
    /\ UNCHANGED <<twin, serverVars, restVars, ctorVars, req, pc, event, calls, dispatch, response, console, reader>>

\* getStripe / getConfig return a value or throw NotInitialized
getStripeThrows == stripeInstance = NoInstance
getConfigThrows == currentConfig = NoConfig
getConfig == [webhookSecret |-> currentConfig.webhookSecret]
\* what getStripe returns when it does not throw
getStripe == stripeInstance
\* getConfig of the other version of the module: return currentConfig
getConfig_other == currentConfig
getConfigOf(version) == IF version = 1 THEN getConfig ELSE getConfig_other

\* ---------------------------------------------------------------- createWebhookHandler
\* faulty variant: the process-wide secret takes precedence over config.secret
ResolveSecret_globalFirst(cfg) ==
    IF ~getConfigThrows /\ getConfig.webhookSecret # UNDEF
    THEN getConfig.webhookSecret ELSE cfg.secret

\* config.secret ?? getConfig().webhookSecret
ResolveSecret(cfg) ==
    IF cfg.secret # UNDEF THEN cfg.secret ELSE getConfig.webhookSecret

createWebhookHandler(cfg) ==
    /\ config = NoWebhookConfig
    /\ pc = "idle"
    /\ ctorArg' = cfg
    /\ IF cfg.secret = UNDEF /\ getConfigThrows
       THEN /\ ctorError' = NotInitialized
            /\ UNCHANGED <<config, webhookSecret>>
       ELSE IF ~Truthy(ResolveSecret(cfg))
       THEN /\ ctorError' = SecretRequired
            /\ UNCHANGED <<config, webhookSecret>>
       ELSE /\ ctorError' = NoError
            /\ config' = [cfg EXCEPT !.built = TRUE]
            /\ webhookSecret' = ResolveSecret(cfg)
    /\ UNCHANGED <<twin, serverVars, restVars, clientVars, req, pc, event, calls, dispatch, response, console, reader>>

WebhookConfigs ==
    [secret : ConfigSecrets, handlers : HandlerMaps,
     onError : BOOLEAN, onUnhandledEvent : BOOLEAN, built : {FALSE}]

\* ---------------------------------------------------------------- handleWebhook
\* faulty variant: the error raised for a failed verification quotes the secret
VerificationError_leaky(err) == Err(webhookSecret)

\* err instanceof Error ? err : new Error('Webhook signature verification failed')
VerificationError(err) ==
    IF err.cls = "Error" THEN err ELSE Err("Webhook signature verification failed")

\* error instanceof Error ? error : new Error(String(error))
AsError(error) ==
    IF error.cls = "Error" THEN error ELSE Err(error.msg)

\* config.handlers[event.type]
HasHandler(t) == t \in config.handlers

\* faulty variant: an event already delivered to its handler is acknowledged
\* without calling the handler again
Route_deduplicated(ev, log) ==
    /\ event' = ev
    /\ IF \E i \in DOMAIN deliveries : deliveries[i].event = ev /\ deliveries[i].handled > 0
       THEN /\ calls' = log
            /\ pc' = "settled"
            /\ dispatch' = Returned(ev.type)
       ELSE IF HasHandler(ev.type)
       THEN /\ calls' = Append(log, HandlerCall(ev))
            /\ pc' = "await_handler"
            /\ dispatch' = NotSettled
       ELSE IF config.onUnhandledEvent
       THEN /\ calls' = Append(log, OnUnhandledCall(ev))
            /\ pc' = "await_onUnhandledEvent"
            /\ dispatch' = NotSettled
       ELSE /\ calls' = log
            /\ pc' = "settled"
            /\ dispatch' = Returned(ev.type)

\* faulty variant: an event some dispatcher of the process has already handed
\* to its handler is acknowledged without calling the handler again
Route_seenOnce(ev, log) ==
    /\ event' = ev
    /\ IF \E i \in DOMAIN twin.calls : twin.calls[i].fn = "handler" /\ twin.calls[i].event = ev
       THEN /\ calls' = log
            /\ pc' = "settled"
            /\ dispatch' = Returned(ev.type)
       ELSE IF HasHandler(ev.type)
       THEN /\ calls' = Append(log, HandlerCall(ev))
            /\ pc' = "await_handler"
            /\ dispatch' = NotSettled
       ELSE IF config.onUnhandledEvent
       THEN /\ calls' = Append(log, OnUnhandledCall(ev))
            /\ pc' = "await_onUnhandledEvent"
            /\ dispatch' = NotSettled
       ELSE /\ calls' = log
            /\ pc' = "settled"
            /\ dispatch' = Returned(ev.type)

\* faulty variant: the catch-all callback is never invoked
Route_noCatchAll(ev, log) ==
    /\ event' = ev
    /\ IF HasHandler(ev.type)
       THEN /\ calls' = Append(log, HandlerCall(ev))
            /\ pc' = "await_handler"
            /\ dispatch' = NotSettled
       ELSE /\ calls' = log
            /\ pc' = "settled"
            /\ dispatch' = Returned(ev.type)

\* faulty variant: the handler is started but not awaited
Route_notAwaited(ev, log) ==
    /\ event' = ev
    /\ pc' = "settled"
    /\ dispatch' = Returned(ev.type)
    /\ IF HasHandler(ev.type)
       THEN calls' = Append(log, HandlerCall(ev))
       ELSE IF config.onUnhandledEvent
       THEN calls' = Append(log, OnUnhandledCall(ev))
       ELSE calls' = log

\* Lines 40-56 up to the first await, for a verified event ev.
Route(ev, log) ==
    /\ event' = ev
    /\ IF HasHandler(ev.type)
       THEN /\ calls' = Append(log, HandlerCall(ev))
            /\ pc' = "await_handler"
            /\ dispatch' = NotSettled
       ELSE IF config.onUnhandledEvent
       THEN /\ calls' = Append(log, OnUnhandledCall(ev))
            /\ pc' = "await_onUnhandledEvent"
            /\ dispatch' = NotSettled
       ELSE /\ calls' = log
            /\ pc' = "settled"
            /\ dispatch' = Returned(ev.type)

\* faulty variant: the verification error is raised without notifying onError
VerificationFailed_noNotify(err, log) ==
    /\ event' = NoEvent
    /\ calls' = log
    /\ pc' = "settled"
    /\ dispatch' = Raised(VerificationError(err))

\* Lines 27-38 for a failed verification that threw err.
VerificationFailed(err, log) ==
    /\ event' = NoEvent
    /\ IF config.onError
       THEN /\ calls' = Append(log, OnErrorCall(VerificationError(err), NoEvent))
            /\ pc' = "await_onError_verification"
            /\ dispatch' = NotSettled
       ELSE /\ calls' = log
            /\ pc' = "settled"
            /\ dispatch' = Raised(VerificationError(err))

\* faulty variant: verification reads the process-wide secret at dispatch time
handleWebhook_liveSecret(log, body, signature) ==
    IF getStripeThrows
    THEN /\ event' = NoEvent
         /\ calls' = log
         /\ pc' = "settled"
         /\ dispatch' = Raised(NotInitialized)
    ELSE \/ \E ev \in Events :
              Route(ev, Append(log, VerifyCall(body, signature, getConfig.webhookSecret, ev, NoError)))
         \/ \E err \in SignatureErrors :
              VerificationFailed(err, Append(log, VerifyCall(body, signature, getConfig.webhookSecret, NoEvent, err)))

\* handleWebhook(body, signature) up to its first await (or its end); log is
\* the calls made so far in this request.
\* stripe.webhooks.constructEvent is the provider's primitive: it returns an
\* event or throws, as the environment decides.
handleWebhook(log, body, signature) ==
    IF getStripeThrows
    THEN /\ event' = NoEvent
         /\ calls' = log
         /\ pc' = "settled"
         /\ dispatch' = Raised(NotInitialized)
    ELSE \/ \E ev \in Events :
              Route(ev, Append(log, VerifyCall(body, signature, webhookSecret, ev, NoError)))
         \/ \E err \in SignatureErrors :
              VerificationFailed(err, Append(log, VerifyCall(body, signature, webhookSecret, NoEvent, err)))

\* the caller invokes the dispatcher directly
Dispatch(body, signature) ==
    /\ config.built
    /\ pc = "idle"
    /\ req' = [NoReq EXCEPT !.entry = "direct", !.body = body, !.signature = signature]
    /\ handleWebhook(calls, body, signature)
    /\ UNCHANGED <<twin, serverVars, restVars, clientVars, ctorVars, response, console, reader>>

\* await config.onError(verificationError) completes; throw verificationError
OnErrorVerificationDone ==
    /\ pc = "await_onError_verification"
    /\ pc' = "settled"
    /\ \/ /\ calls' = CompleteLast(calls, NoError)
          /\ dispatch' = Raised(calls[Len(calls)].error)
       \/ \E e \in CallbackErrors :
             /\ calls' = CompleteLast(calls, e)
             /\ dispatch' = Raised(e)
    /\ UNCHANGED <<twin, serverVars, restVars, clientVars, ctorVars, req, event, response, console, reader>>

\* await handler(event) completes normally
HandlerReturns ==
    /\ pc = "await_handler"
    /\ pc' = "settled"
    /\ calls' = CompleteLast(calls, NoError)
    /\ dispatch' = Returned(event.type)
    /\ UNCHANGED <<twin, serverVars, restVars, clientVars, ctorVars, req, event, response, console, reader>>

\* faulty variant: the handler's error is wrapped before it is re-thrown
HandlerThrows_wrapped(error) ==
    /\ pc = "await_handler"
    /\ IF config.onError
       THEN /\ calls' = Append(CompleteLast(calls, error), OnErrorCall(AsError(error), event))
            /\ pc' = "await_onError_handler"
            /\ dispatch' = NotSettled
       ELSE /\ calls' = CompleteLast(calls, error)
            /\ pc' = "settled"
            /\ dispatch' = Raised(AsError(error))
    /\ UNCHANGED <<twin, serverVars, restVars, clientVars, ctorVars, req, event, response, console, reader>>

\* await handler(event) throws: lines 45-51
HandlerThrows(error) ==
    /\ pc = "await_handler"
    /\ IF config.onError
       THEN /\ calls' = Append(CompleteLast(calls, error), OnErrorCall(AsError(error), event))
            /\ pc' = "await_onError_handler"
            /\ dispatch' = NotSettled
       ELSE /\ calls' = CompleteLast(calls, error)
            /\ pc' = "settled"
            /\ dispatch' = Raised(error)
    /\ UNCHANGED <<twin, serverVars, restVars, clientVars, ctorVars, req, event, response, console, reader>>

\* await config.onError(error, event) completes (line 47), then line 56
OnErrorHandlerDone ==
    /\ pc = "await_onError_handler"
    /\ pc' = "settled"
    /\ \/ /\ calls' = CompleteLast(calls, NoError)
          /\ dispatch' = Returned(event.type)
       \/ \E e \in CallbackErrors :
             /\ calls' = CompleteLast(calls, e)
             /\ dispatch' = Raised(e)
    /\ UNCHANGED <<twin, serverVars, restVars, clientVars, ctorVars, req, event, response, console, reader>>

\* await config.onUnhandledEvent(event) completes (line 53), then line 56
OnUnhandledEventDone ==
    /\ pc = "await_onUnhandledEvent"
    /\ pc' = "settled"
    /\ \/ /\ calls' = CompleteLast(calls, NoError)
          /\ dispatch' = Returned(event.type)
       \/ \E e \in CallbackErrors :
             /\ calls' = CompleteLast(calls, e)
             /\ dispatch' = Raised(e)
    /\ UNCHANGED <<twin, serverVars, restVars, clientVars, ctorVars, req, event, response, console, reader>>

\* ---------------------------------------------------------------- adapters
\* parseInt(contentLength, 10) > MAX_BODY_SIZE, false for NaN
ContentLengthTooLarge(h) == h.present /\ ~h.nan /\ h.value > MAX_BODY_SIZE

TextCall(b) == Call("request.text", b, NULL, NULL, NoEvent, NoError)

\* the message the catch block of the adapter logs (first version)
LoggedMessage(error) == IF error.cls = "Error" THEN error.msg ELSE "Unknown error"
\* the message the catch block of the adapter answers with (other version)
CaughtMessage_other(error) == IF error.cls = "Error" THEN error.msg ELSE "Webhook handler failed"

\* r is sent after what was already sent for this request
Send(r) == [r EXCEPT !.sent = response.sent + 1]

\* faulty variant: the catch block answers with the error's message
Catch_leaky(error) ==
    /\ console' = Append(console, LoggedMessage(error))
    /\ response' = Send(ErrorResponse(400, LoggedMessage(error)))
    /\ pc' = "responded"

\* catch (error) { console.error(...); 400 'Webhook processing failed' }
Catch(error) ==
    /\ console' = Append(console, LoggedMessage(error))
    /\ response' = Send(ErrorResponse(400, "Webhook processing failed"))
    /\ pc' = "responded"

\* catch (error) { 400 error.message }
Catch_other(error) ==
    /\ console' = console
    /\ response' = Send(ErrorResponse(400, CaughtMessage_other(error)))
    /\ pc' = "responded"

CatchOf(version, error) == IF version = 1 THEN Catch(error) ELSE Catch_other(error)

Respond(r) ==
    /\ response' = Send(r)
    /\ pc' = "responded"
    /\ console' = console

\* createNextWebhookHandler/POST up to `await request.text()`
POST(r) ==
    /\ config.built
    /\ pc = "idle"
    /\ r.entry = "next" /\ r.version = 1
    /\ req' = r
    /\ IF r.method # "POST"
       THEN Respond(EmptyResponse(405)) /\ calls' = calls
       ELSE IF ContentLengthTooLarge(r.contentLength)
       THEN Respond(ErrorResponse(413, "Webhook body too large")) /\ calls' = calls
       ELSE /\ calls' = Append(calls, TextCall(r.body))
            /\ pc' = "await_text"
            /\ UNCHANGED <<response, console>>
    /\ UNCHANGED <<twin, serverVars, restVars, clientVars, ctorVars, event, dispatch, reader>>

\* the other version has no method check
POST_other(r) ==
    /\ config.built
    /\ pc = "idle"
    /\ r.entry = "next" /\ r.version = 2
    /\ req' = r
    /\ IF ContentLengthTooLarge(r.contentLength)
       THEN Respond(ErrorResponse(413, "Webhook body too large")) /\ calls' = calls
       ELSE /\ calls' = Append(calls, TextCall(r.body))
            /\ pc' = "await_text"
            /\ UNCHANGED <<response, console>>
    /\ UNCHANGED <<twin, serverVars, restVars, clientVars, ctorVars, event, dispatch, reader>>

\* faulty variant: the signature header is not checked before dispatching
POST_text_unchecked ==
    /\ pc = "await_text"
    /\ req.version = 1
    /\ IF StringLength(req.body) > MAX_BODY_SIZE
       THEN /\ Respond(ErrorResponse(413, "Webhook body too large"))
            /\ calls' = CompleteLast(calls, NoError)
            /\ UNCHANGED <<event, dispatch>>
       ELSE /\ handleWebhook(CompleteLast(calls, NoError), req.body, req.signature)
            /\ UNCHANGED <<response, console>>
    /\ UNCHANGED <<twin, serverVars, restVars, clientVars, ctorVars, req, reader>>

\* POST after `await request.text()` resolved: lines 82-98
POST_text ==
    /\ pc = "await_text"
    /\ req.version = 1
    /\ IF StringLength(req.body) > MAX_BODY_SIZE
       THEN /\ Respond(ErrorResponse(413, "Webhook body too large"))
            /\ calls' = CompleteLast(calls, NoError)
            /\ UNCHANGED <<event, dispatch>>
       ELSE IF ~Truthy(req.signature)
       THEN /\ Respond(ErrorResponse(400, "Missing stripe-signature header"))
            /\ calls' = CompleteLast(calls, NoError)
            /\ UNCHANGED <<event, dispatch>>
       ELSE /\ handleWebhook(CompleteLast(calls, NoError), req.body, req.signature)
            /\ UNCHANGED <<response, console>>
    /\ UNCHANGED <<twin, serverVars, restVars, clientVars, ctorVars, req, reader>>

\* POST after `await request.text()` resolved, other version: lines 279-289
POST_text_other ==
    /\ pc = "await_text"
    /\ req.version = 2
    /\ IF ~Truthy(req.signature)
       THEN /\ Respond(ErrorResponse(400, "Missing stripe-signature header"))
            /\ calls' = CompleteLast(calls, NoError)
            /\ UNCHANGED <<event, dispatch>>
       ELSE /\ handleWebhook(CompleteLast(calls, NoError), req.body, req.signature)
            /\ UNCHANGED <<response, console>>
    /\ UNCHANGED <<twin, serverVars, restVars, clientVars, ctorVars, req, reader>>

\* `await request.text()` rejects (the body cannot be read): catch block
POST_textFails ==
    /\ pc = "await_text"
    /\ calls' = CompleteLast(calls, StreamError)
    /\ CatchOf(req.version, StreamError)
    /\ UNCHANGED <<twin, serverVars, restVars, clientVars, ctorVars, req, event, dispatch, reader>>

\* faulty variant: a handler failure reported to onError is answered 400
AdapterResult_strict ==
    /\ pc = "settled"
    /\ req.entry \in {"next", "pages"}
    /\ IF dispatch.kind = "returned" /\ \A i \in DOMAIN calls : calls[i].threw = NoError
       THEN Respond(ResultResponse(dispatch))
       ELSE CatchOf(req.version, dispatch.error)
    /\ UNCHANGED <<twin, serverVars, restVars, clientVars, ctorVars, req, event, calls, dispatch, reader>>

\* the adapter's continuation after `await handler(body, signature)`:
\* 200 with the result, or the catch block (both adapters)
AdapterResult ==
    /\ pc = "settled"
    /\ req.entry \in {"next", "pages"}
    /\ IF dispatch.kind = "returned"
       THEN Respond(ResultResponse(dispatch))
       ELSE CatchOf(req.version, dispatch.error)
    /\ UNCHANGED <<twin, serverVars, restVars, clientVars, ctorVars, req, event, calls, dispatch, reader>>

\* ---------------------------------------------------------------- getRawBody
\* getRawBody(req) up to the registration of the stream listeners
getRawBody(r) ==
    IF r.bodyKind = "string"
    THEN IF StringLength(r.body) > MAX_BODY_SIZE
         THEN [NoReader EXCEPT !.promise = "rejected", !.error = BodyTooLarge]
         ELSE [NoReader EXCEPT !.promise = "resolved", !.body = r.body]
    ELSE IF r.bodyKind = "buffer"
    THEN IF ByteLength(r.body) > MAX_BODY_SIZE
         THEN [NoReader EXCEPT !.promise = "rejected", !.error = BodyTooLarge]
         ELSE [NoReader EXCEPT !.promise = "resolved", !.body = r.body]
    ELSE IF r.bodyKind = "none"
    THEN [NoReader EXCEPT !.promise = "rejected", !.error = CannotReadBody]
    ELSE [NoReader EXCEPT !.promise = "pending", !.open = TRUE]

\* Buffer.concat(chunks).length
RECURSIVE SumSeq(_)
SumSeq(q) == IF q = <<>> THEN 0 ELSE Head(q) + SumSeq(Tail(q))

\* reject / resolve settle the promise only once
Reject(rd, e) == IF rd.promise = "pending" THEN [rd EXCEPT !.promise = "rejected", !.error = e] ELSE rd
Resolve(rd) ==
    IF rd.promise = "pending"
    THEN [rd EXCEPT !.promise = "resolved", !.body = Body(SumSeq(rd.chunks), 0)]
    ELSE rd

\* faulty variant: the chunk is buffered before the running total is checked
OnData_bufferFirst(rd, n) ==
    IF rd.rejected THEN rd
    ELSE LET t == rd.totalLength + n IN
         IF t > MAX_BODY_SIZE
         THEN Reject([rd EXCEPT !.totalLength = t, !.rejected = TRUE,
                                !.chunks = Append(@, n)], BodyTooLarge)
         ELSE [rd EXCEPT !.totalLength = t, !.chunks = Append(@, n)]

\* req.on('data', ...) listener, lines 173-183
OnData(rd, n) ==
    IF rd.rejected THEN rd
    ELSE LET t == rd.totalLength + n IN
         IF t > MAX_BODY_SIZE
         THEN Reject([rd EXCEPT !.totalLength = t, !.rejected = TRUE], BodyTooLarge)
         ELSE [rd EXCEPT !.totalLength = t, !.chunks = Append(@, n)]

\* req.on('data', ...) listener of the other version, lines 377-385
OnData_other(rd, n) ==
    LET t == rd.totalLength + n IN
    IF t > MAX_BODY_SIZE
    THEN Reject([rd EXCEPT !.totalLength = t], BodyTooLarge)
    ELSE [rd EXCEPT !.totalLength = t, !.chunks = Append(@, n)]

\* req.on('end', ...) listener, lines 184-186
OnEnd(rd) == IF ~rd.rejected THEN Resolve(rd) ELSE rd
\* req.on('end', ...) listener of the other version, line 386
OnEnd_other(rd) == Resolve(rd)

ChunkSizes == {1, MAX_BODY_SIZE \div 2, MAX_BODY_SIZE, MAX_BODY_SIZE + 1}

\* the stream emits 'data'
StreamData(n) ==
    /\ reader.open
    /\ reader.events < MaxChunks
    /\ reader' = [(IF req.version = 1 THEN OnData(reader, n) ELSE OnData_other(reader, n))
                    EXCEPT !.events = @ + 1]
    /\ UNCHANGED <<twin, serverVars, restVars, clientVars, ctorVars, req, pc, event, calls, dispatch, response, console>>

\* the stream emits 'end'
StreamEnd ==
    /\ reader.open
    /\ reader' = [(IF req.version = 1 THEN OnEnd(reader) ELSE OnEnd_other(reader))
                    EXCEPT !.open = FALSE]
    /\ UNCHANGED <<twin, serverVars, restVars, clientVars, ctorVars, req, pc, event, calls, dispatch, response, console>>

\* faulty variant: the 'error' listener answers the request itself
StreamFails_answering ==
    /\ reader.open
    /\ reader' = [Reject(reader, StreamError) EXCEPT !.open = FALSE]
    /\ response' = Send(ErrorResponse(400, "Webhook processing failed"))
    /\ pc' = "responded"
    /\ UNCHANGED <<twin, serverVars, restVars, clientVars, ctorVars, req, event, calls, dispatch, console>>

\* the stream emits 'error': req.on('error', reject)
StreamFails ==
    /\ reader.open
    /\ reader' = [Reject(reader, StreamError) EXCEPT !.open = FALSE]
    /\ UNCHANGED <<twin, serverVars, restVars, clientVars, ctorVars, req, pc, event, calls, dispatch, response, console>>

\* createPagesWebhookHandler/webhookRoute up to `await getRawBody(req)`
webhookRoute(r) ==
    /\ config.built
    /\ pc = "idle"
    /\ r.entry = "pages"
    /\ req' = r
    /\ IF r.method # "POST"
       THEN Respond(EmptyResponse(405)) /\ reader' = reader
       ELSE /\ reader' = getRawBody(r)
            /\ pc' = "await_body"
            /\ UNCHANGED <<response, console>>
    /\ UNCHANGED <<twin, serverVars, restVars, clientVars, ctorVars, event, calls, dispatch>>

\* webhookRoute after getRawBody's promise settled: lines 132-139 and the catch
webhookRoute_body ==
    /\ pc = "await_body"
    /\ reader.promise \in {"resolved", "rejected"}
    /\ IF reader.promise = "rejected"
       THEN /\ CatchOf(req.version, reader.error)
            /\ UNCHANGED <<event, calls, dispatch>>
       ELSE IF ~Truthy(req.signature)
       THEN /\ Respond(ErrorResponse(400, "Missing stripe-signature header"))
            /\ UNCHANGED <<event, calls, dispatch>>
       ELSE /\ handleWebhook(calls, reader.body, req.signature)
            /\ UNCHANGED <<response, console>>
    /\ UNCHANGED <<twin, serverVars, restVars, clientVars, ctorVars, req, reader>>

\* the request is over (its outcome has been observed); the next one may start
Finish ==
    /\ \/ pc = "settled" /\ req.entry = "direct"
       \/ pc = "responded"
    /\ pc' = "idle"
    /\ req' = NoReq
    /\ event' = NoEvent
    /\ calls' = <<>>
    /\ dispatch' = NotSettled
    /\ response' = NoResponse
    /\ console' = <<>>
    /\ reader' = NoReader
    /\ UNCHANGED <<twin, serverVars, restVars, clientVars, ctorVars>>

\* ---------------------------------------------------------------- successive deliveries
\* The caller has observed a dispatch and the provider delivers again: what
\* the dispatch did is kept in deliveries (the verified event, how often the
\* handler was called, whether a handler or callback threw, how it settled).
Delivered ==
    /\ pc = "settled"
    /\ req.entry = "direct"
    /\ Len(deliveries) < MaxDeliveries
    /\ deliveries' = Append(deliveries,
           [event |-> event,
            handled |-> Cardinality({i \in DOMAIN calls : calls[i].fn = "handler"}),
            threw |-> \E i \in DOMAIN calls :
                          calls[i].fn # "constructEvent" /\ calls[i].threw # NoError,
            dispatch |-> dispatch])
    /\ pc' = "idle"
    /\ req' = NoReq
    /\ event' = NoEvent
    /\ calls' = <<>>
    /\ dispatch' = NotSettled
    /\ UNCHANGED <<clientVars, ctorVars, response, console, reader, twin, serverVars,
                   other, hook>>

\* the configurations of a dispatcher that receives successive deliveries
DeliveryConfigs ==
    [secret : {"whsec_custom"}, handlers : {{"payment_intent.succeeded"}},
     onError : BOOLEAN, onUnhandledEvent : {FALSE}, built : {FALSE}]

\* ---------------------------------------------------------------- concurrent dispatches
\* Two calls of one dispatcher may be in flight at once: a call runs until it
\* awaits (its handler, onError or onUnhandledEvent) or ends, and then the
\* other call, or a new one, may run. The locals of the call that is not
\* running (body, signature, event, what it has called, how it settled) are
\* kept in other.
Suspended == pc \in {"await_handler", "await_onError_handler", "await_onError_verification",
                     "await_onUnhandledEvent", "settled"}

Locals == [pc |-> pc, req |-> req, event |-> event, calls |-> calls, dispatch |-> dispatch]

\* faulty variant: the verified event is kept in one place for all calls
Switch_sharedEvent ==
    /\ config.built
    /\ req.entry \in {"direct", "none"}
    /\ \/ Suspended
       \/ pc = "idle" /\ other # NoDispatch
    /\ other' = Locals
    /\ IF other = NoDispatch
       THEN /\ pc' = "idle"
            /\ req' = NoReq
            /\ calls' = <<>>
            /\ dispatch' = NotSettled
       ELSE /\ pc' = other.pc
            /\ req' = other.req
            /\ calls' = other.calls
            /\ dispatch' = other.dispatch
    /\ UNCHANGED <<event, clientVars, ctorVars, response, console, reader, twin, serverVars,
                   deliveries, hook>>

\* the running call is suspended or over and the event loop runs the other one
Switch ==
    /\ config.built
    /\ req.entry \in {"direct", "none"}
    /\ \/ Suspended
       \/ pc = "idle" /\ other # NoDispatch
    /\ other' = Locals
    /\ IF other = NoDispatch
       THEN /\ pc' = "idle"
            /\ req' = NoReq
            /\ event' = NoEvent
            /\ calls' = <<>>
            /\ dispatch' = NotSettled
       ELSE /\ pc' = other.pc
            /\ req' = other.req
            /\ event' = other.event
            /\ calls' = other.calls
            /\ dispatch' = other.dispatch
    /\ UNCHANGED <<clientVars, ctorVars, response, console, reader, twin, serverVars,
                   deliveries, hook>>

\* the configurations of a dispatcher that is called concurrently
ConcurrentConfigs ==
    [secret : {"whsec_custom"},
     handlers : {{"payment_intent.succeeded"}, {"payment_intent.succeeded", "unknown.event"}},
     onError : BOOLEAN, onUnhandledEvent : BOOLEAN, built : {FALSE}]

\* ---------------------------------------------------------------- two dispatchers
\* A second dispatcher is constructed (lines 14-20) while the first one is
\* idle; twin holds its closure: the configuration and the secret it resolved.
createSecondHandler(cfg) ==
    /\ config.built
    /\ twin.phase = 0
    /\ pc = "idle"
    /\ ~(cfg.secret = UNDEF /\ getConfigThrows)
    /\ Truthy(ResolveSecret(cfg))
    /\ twin' = [NoTwin EXCEPT !.phase = 1, !.arg = cfg,
                               !.config = [cfg EXCEPT !.built = TRUE],
                               !.webhookSecret = ResolveSecret(cfg),
                               !.client = clientVars]
    /\ UNCHANGED <<clientVars, ctorVars, requestVars, serverVars, restVars>>

\* The caller has observed what the first dispatcher did with a request and
\* turns to the second one: from here on config and webhookSecret are the
\* second dispatcher's closure, and twin keeps the first one's and its outcome.
SecondDispatcher ==
    /\ twin.phase = 1
    /\ \/ pc = "settled" /\ req.entry = "direct"
       \/ pc = "responded"
    /\ twin' = [twin EXCEPT !.phase = 2, !.arg = ctorArg, !.config = config,
                            !.webhookSecret = webhookSecret, !.req = req,
                            !.calls = calls, !.dispatch = dispatch,
                            !.response = response, !.console = console]
    /\ config' = twin.config
    /\ webhookSecret' = twin.webhookSecret
    /\ ctorArg' = twin.arg
    /\ pc' = "idle"
    /\ req' = NoReq
    /\ event' = NoEvent
    /\ calls' = <<>>
    /\ dispatch' = NotSettled
    /\ response' = NoResponse
    /\ console' = <<>>
    /\ UNCHANGED <<clientVars, ctorError, reader, serverVars, restVars>>

\* the first dispatcher is given a request
FirstDispatch(body, signature) == twin.phase < 2 /\ Dispatch(body, signature)
FirstPOST(r) == twin.phase < 2 /\ (POST(r) \/ POST_other(r))
\* the second dispatcher is given the request the first one was given
SecondDispatch ==
    /\ twin.phase = 2
    /\ twin.req.entry = "direct"
    /\ Dispatch(twin.req.body, twin.req.signature)
SecondPOST ==
    /\ twin.phase = 2
    /\ twin.req.entry = "next"
    /\ IF twin.req.version = 1 THEN POST(twin.req) ELSE POST_other(twin.req)
\* the first dispatcher's request is over and it may be given another one
FirstFinish == twin.phase < 2 /\ Finish

\* ---------------------------------------------------------------- requests
ContentLengths ==
    {NoHeader, Garbage, Digits(8), Digits(MAX_BODY_SIZE), Digits(MAX_BODY_SIZE + 1)}
SignatureHeaders == Signatures \cup {NULL}

NextRequests ==
    {[entry |-> "next", version |-> v, method |-> m, contentLength |-> cl,
      body |-> b, bodyKind |-> "text", signature |-> s] :
        v \in {1, 2}, m \in {"POST", "GET"}, b \in Bodies,
        cl \in ContentLengths, s \in SignatureHeaders}

\* the requests given to two dispatchers
TwinBodies == {Body(8, 0)}
TwinRequests ==
    {[entry |-> "next", version |-> v, method |-> "POST", contentLength |-> NoHeader,
      body |-> b, bodyKind |-> "text", signature |-> s] :
        v \in {1, 2}, b \in TwinBodies, s \in SignatureHeaders}

PagesRequests ==
    {[entry |-> "pages", version |-> v, method |-> m, contentLength |-> NoHeader,
      body |-> b, bodyKind |-> k, signature |-> s] :
        v \in {1, 2}, m \in {"POST", "GET"}, b \in Bodies,
        k \in {"string", "buffer"}, s \in SignatureHeaders}
    \cup
    {[entry |-> "pages", version |-> v, method |-> m, contentLength |-> NoHeader,
      body |-> NoBody, bodyKind |-> k, signature |-> s] :
        v \in {1, 2}, m \in {"POST", "GET"},
        k \in {"stream", "none"}, s \in SignatureHeaders}

\* ---------------------------------------------------------------- utils/errors.ts
\* A thrown value as handleStripeError reads it: whether it is an Error, its
\* message, and the type, code and statusCode it carries (UNDEF / 0 when absent).
Thrown(cls, msg, type, code, statusCode) ==
    [cls |-> cls, msg |-> msg, type |-> type, code |-> code, statusCode |-> statusCode]
\* an Error that carries no type: getStripe's, a validator's, a TypeError
Plain(e) == Thrown(e.cls, e.msg, UNDEF, UNDEF, 0)
NoThrown == Plain(NoError)

\* what a Stripe call may reject with: a Stripe error, an Error without a type,
\* a thrown string, and an object whose type is the empty string
StripeRejections ==
    {Thrown("Error", "Your card was declined.", "StripeCardError", "card_declined", 402),
     Thrown("Error", "connect ECONNREFUSED", UNDEF, UNDEF, 0),
     Thrown("string", "unexpected error", UNDEF, UNDEF, 0),
     Thrown("object", "no type", "", UNDEF, 0)}

\* null for SDKResult.data and SDKResult.error
NoData == [object |-> NULL]
NoSDKError == [message |-> NULL, type |-> NULL, code |-> UNDEF, statusCode |-> 0]
NoResult == [data |-> NoData, error |-> NoSDKError]

\* faulty variant: the thrown value's type is not reported
handleStripeError_untyped(error) ==
    [data |-> NoData,
     error |-> [message |-> error.msg, type |-> "sdk_error", code |-> UNDEF, statusCode |-> 0]]

handleStripeError(error) ==
    IF Truthy(error.type)
    THEN [data |-> NoData,
          error |-> [message |-> error.msg, type |-> error.type,
                     code |-> error.code, statusCode |-> error.statusCode]]
    ELSE [data |-> NoData,
          error |-> [message |-> IF error.cls = "Error" THEN error.msg
                                 ELSE "An unknown error occurred",
                     type |-> "sdk_error", code |-> UNDEF, statusCode |-> 0]]

success(data) == [data |-> data, error |-> NoSDKError]

\* ---------------------------------------------------------------- utils/validators.ts
\* A Stripe id is a prefix and the rest; NoId is the absent or empty id.
Id(prefix, rest) == [prefix |-> prefix, rest |-> rest]
NoId == Id("", "")
STRIPE_ID_PREFIXES == [customer |-> "cus_", subscription |-> "sub_"]
MAX_AMOUNT == 99999999

\* each validator yields the Error it throws, or NoError when it returns
validateStripeId(id, type) ==
    IF id = NoId
    THEN Err("ID is required and must be a non-empty string")
    ELSE IF id.prefix # STRIPE_ID_PREFIXES[type]
    THEN Err("Invalid ID: expected prefix")
    ELSE NoError

validateAmount(amount) ==
    IF amount < 0 THEN Err("amount must not be negative")
    ELSE IF amount > MAX_AMOUNT
    THEN Err("amount exceeds maximum allowed value (99999999)")
    ELSE NoError

\* currency.trim().toLowerCase() over the currencies of the model
Normalized(currency) == IF currency = " EUR" THEN "eur" ELSE currency
validateCurrency(currency) ==
    IF currency = "" THEN Err("Currency is required")
    ELSE IF Normalized(currency) \notin {"eur", "usd"}
    THEN Err("Currency must be a valid 3-letter ISO 4217 code")
    ELSE NoError

validateUrl(url) ==
    IF url = "" THEN Err("URL is required")
    ELSE IF url = "ftp://example.com" THEN Err("URL must use http or https protocol")
    ELSE IF url # "https://example.com/ok" THEN Err("URL must be a valid URL")
    ELSE NoError

\* the first validator of a function body that throws
RECURSIVE FirstError(_)
FirstError(errs) ==
    IF errs = <<>> THEN NoError
    ELSE IF Head(errs) # NoError THEN Head(errs)
    ELSE FirstError(Tail(errs))

\* A metadata object is its entries in order: the length of each key, whether
\* its value is a string, the length of the value. NoMetadata is undefined.
Entry(k, str, v) == [keyLength |-> k, string |-> str, valueLength |-> v]
NoMetadata == [present |-> FALSE, entries |-> <<>>]
Meta(entries) == [present |-> TRUE, entries |-> entries]

\* the body of validateMetadata's loop for one entry
EntryError(e) ==
    IF e.keyLength > 40 THEN Err("Metadata key exceeds 40 characters")
    ELSE IF ~e.string THEN Err("Metadata value must be a string")
    ELSE IF e.valueLength > 500 THEN Err("Metadata value exceeds 500 characters")
    ELSE NoError

validateMetadata(metadata) ==
    IF Len(metadata.entries) > 50
    THEN Err("Metadata cannot have more than 50 keys")
    ELSE FirstError([i \in 1..Len(metadata.entries) |-> EntryError(metadata.entries[i])])

TypeError == Err("Cannot read properties of null")

\* A number is counted in tenths, so that Math.floor has something to do.
\* NoNumber is undefined.
NoNumber == [defined |-> FALSE, tenths |-> 0]
Number(t) == [defined |-> TRUE, tenths |-> t]
Whole(n) == Number(10 * n)
Floor(x) == Whole(x.tenths \div 10)
MathMax(x, y) == IF x.tenths >= y.tenths THEN x ELSE y
MathMin(x, y) == IF x.tenths <= y.tenths THEN x ELSE y

\* sanitizeLimit(limit, defaultLimit = 10)
sanitizeLimit(limit) ==
    IF ~limit.defined THEN Whole(10)
    ELSE MathMin(MathMax(Floor(limit), Whole(1)), Whole(100))

\* ---------------------------------------------------------------- server functions
NullInput == [null |-> TRUE]
NoDetails == [comment |-> UNDEF, feedback |-> UNDEF, present |-> FALSE]
Details == [comment |-> UNDEF, feedback |-> "too_expensive", present |-> TRUE]

PaymentIntentInputs ==
    {[amount |-> a, currency |-> c, customerId |-> k] :
        a \in {2000, -1, MAX_AMOUNT + 1}, c \in {" EUR", "euro"},
        k \in {NoId, Id("sub_", "123")}}
CheckoutSessionInputs ==
    {[successUrl |-> s, cancelUrl |-> c, customerId |-> NoId] :
        s \in {"https://example.com/ok", "ftp://example.com"},
        c \in {"https://example.com/ok", ""}}
PortalSessionInputs ==
    {[customerId |-> k, returnUrl |-> u] :
        k \in {Id("cus_", "123"), NoId}, u \in {"", "https://example.com/ok", "not a url"}}
CancelSubscriptionInputs ==
    {[subscriptionId |-> s, cancelAtPeriodEnd |-> p, cancellationDetails |-> d] :
        s \in {Id("sub_", "123"), Id("cus_", "123"), NoId}, p \in BOOLEAN,
        d \in {NoDetails, Details}}
SubscriptionIds == {Id("sub_", "123"), Id("cus_", "123"), NoId}
MetadataValues ==
    {NoMetadata, Meta(<<>>), Meta(<<Entry(8, TRUE, 12)>>),
     Meta([i \in 1..50 |-> Entry(40, TRUE, 500)]),
     Meta([i \in 1..51 |-> Entry(8, TRUE, 12)]),
     Meta(<<Entry(8, TRUE, 12), Entry(41, TRUE, 1)>>),
     Meta(<<Entry(8, FALSE, 0)>>),
     Meta(<<Entry(40, TRUE, 501)>>)}
SubscriptionInputs ==
    {[customerId |-> k, metadata |-> m] :
        k \in {Id("cus_", "123"), Id("sub_", "123"), NoId}, m \in MetadataValues}

\* the limits a caller may pass: none, integers around both ends of 1..100,
\* and numbers that are not integers
Limits ==
    {NoNumber} \cup {Whole(n) : n \in {-1, 0, 1, 2, 99, 100, 101, 1000}}
               \cup {Number(t) : t \in {-5, 5, 25, 1005}}
ListFunctions == {"listSubscriptions", "listProducts", "listProducts_other"}
ListInputs(fn) ==
    {[limit |-> l, customerId |-> k] :
        l \in Limits,
        k \in IF fn = "listSubscriptions" THEN {NoId, Id("cus_", "123"), Id("sub_", "123")}
              ELSE {NoId}}

ServerFunctions == {"createPaymentIntent", "createCheckoutSession", "createPortalSession",
                    "createSubscription", "cancelSubscription", "resumeSubscription"}
InputsOf(fn) ==
    CASE fn = "createPaymentIntent" -> PaymentIntentInputs \cup {NullInput}
      [] fn = "createCheckoutSession" -> CheckoutSessionInputs \cup {NullInput}
      [] fn = "createPortalSession" -> PortalSessionInputs \cup {NullInput}
      [] fn = "createSubscription" -> SubscriptionInputs \cup {NullInput}
      [] fn = "cancelSubscription" -> CancelSubscriptionInputs \cup {NullInput}
      [] fn = "resumeSubscription" -> SubscriptionIds
      [] fn \in ListFunctions -> ListInputs(fn)

\* one thing a call did: a callback it invoked, the parsing of the request
\* body, or a call of the Stripe client (its method, id and parameters)
\* and how it ended (pending while it is awaited)
NoParams == [none |-> TRUE]
Pending == [kind |-> "pending"]
Resolved(value) == [kind |-> "resolved", value |-> value]
Rejected(error) == [kind |-> "rejected", error |-> error]
Step(kind) ==
    [step |-> kind, method |-> "", id |-> NoId, params |-> NoParams, answer |-> Pending]
StripeCall(method, id, params) ==
    [step |-> "stripe", method |-> method, id |-> id, params |-> params, answer |-> Pending]
\* the awaited step (the last one) ends
Complete(log, answer) == [log EXCEPT ![Len(log)].answer = answer]

NoInvocation == [entry |-> "none", fn |-> "none", input |-> NullInput,
                 beforeCreate |-> FALSE, pc |-> "idle"]
NoJson == [none |-> TRUE]
NoOutcome == [kind |-> "none", result |-> NoResult, error |-> NoError,
              status |-> 0, body |-> NoJson]
Unset == [cancel_at_period_end |-> "unset", before |-> "unset"]

\* what the Stripe call resolves with
DataOf(op) == [object |-> op.method]

\* the value of cancel_at_period_end a subscriptions.update call requests
Requested(op) ==
    IF op.method = "subscriptions.update"
    THEN [cancel_at_period_end |-> IF op.params.cancel_at_period_end THEN "true" ELSE "false",
          before |-> remote.cancel_at_period_end]
    ELSE remote

\* new Response(JSON.stringify({ error: message }), { status })
errorResponse(message, status) ==
    [kind |-> "response", result |-> NoResult, error |-> NoError,
     status |-> status, body |-> [error |-> message]]

\* the server function returns `result`: to its caller, or to the route, which
\* answers 400 with the error's message or 200 with the data (lines 445-452)
Settle(inv, result, log) ==
    /\ trace' = log
    /\ invocation' = [inv EXCEPT !.pc = "done"]
    /\ outcome' = IF inv.entry # "route"
                  THEN [NoOutcome EXCEPT !.kind = "returned", !.result = result]
                  ELSE IF result.error # NoSDKError
                  THEN [errorResponse(result.error.message, 400) EXCEPT !.result = result]
                  ELSE [kind |-> "response", result |-> result, error |-> NoError,
                        status |-> 200, body |-> result.data]

\* try { validate; getStripe(); await <Stripe call> } catch (error) {
\*   return handleStripeError(error) }, up to the await: err is what the
\* statements before getStripe() threw (NoError if nothing), op the Stripe call
TryBody(inv, log, err, op) ==
    IF err # NoError
    THEN Settle(inv, handleStripeError(Plain(err)), log) /\ UNCHANGED remote
    ELSE IF getStripeThrows
    THEN Settle(inv, handleStripeError(Plain(NotInitialized)), log) /\ UNCHANGED remote
    ELSE /\ trace' = Append(log, op)
         /\ invocation' = [inv EXCEPT !.pc = "await_stripe"]
         /\ outcome' = NoOutcome
         /\ remote' = Requested(op)

createPaymentIntent(inv, log) ==
    LET input == inv.input IN
    IF input = NullInput THEN TryBody(inv, log, TypeError, Step("none"))
    ELSE TryBody(inv, log,
             FirstError(<<validateAmount(input.amount), validateCurrency(input.currency),
                          IF input.customerId # NoId
                          THEN validateStripeId(input.customerId, "customer")
                          ELSE NoError>>),
             StripeCall("paymentIntents.create", NoId,
                        [amount |-> input.amount, currency |-> Normalized(input.currency),
                         customer |-> input.customerId]))

createCheckoutSession(inv, log) ==
    LET input == inv.input IN
    IF input = NullInput THEN TryBody(inv, log, TypeError, Step("none"))
    ELSE TryBody(inv, log,
             FirstError(<<validateUrl(input.successUrl), validateUrl(input.cancelUrl),
                          IF input.customerId # NoId
                          THEN validateStripeId(input.customerId, "customer")
                          ELSE NoError>>),
             StripeCall("checkout.sessions.create", NoId,
                        [success_url |-> input.successUrl, cancel_url |-> input.cancelUrl,
                         customer |-> input.customerId]))

createPortalSession(inv, log) ==
    LET input == inv.input IN
    IF input = NullInput THEN TryBody(inv, log, TypeError, Step("none"))
    ELSE TryBody(inv, log,
             FirstError(<<validateStripeId(input.customerId, "customer"),
                          IF input.returnUrl # "" THEN validateUrl(input.returnUrl)
                          ELSE NoError>>),
             StripeCall("billingPortal.sessions.create", NoId,
                        [customer |-> input.customerId, return_url |-> input.returnUrl]))

\* faulty variant: the metadata is passed to Stripe unchecked
createSubscription_uncheckedMetadata(inv, log) ==
    LET input == inv.input IN
    IF input = NullInput THEN TryBody(inv, log, TypeError, Step("none"))
    ELSE TryBody(inv, log, validateStripeId(input.customerId, "customer"),
             StripeCall("subscriptions.create", NoId,
                        [customer |-> input.customerId, metadata |-> input.metadata]))

createSubscription(inv, log) ==
    LET input == inv.input IN
    IF input = NullInput THEN TryBody(inv, log, TypeError, Step("none"))
    ELSE TryBody(inv, log,
             FirstError(<<validateStripeId(input.customerId, "customer"),
                          IF input.metadata.present THEN validateMetadata(input.metadata)
                          ELSE NoError>>),
             StripeCall("subscriptions.create", NoId,
                        [customer |-> input.customerId, metadata |-> input.metadata]))

\* faulty variant: the subscription is always cancelled at once
cancelSubscription_immediate(inv, log) ==
    LET input == inv.input IN
    IF input = NullInput THEN TryBody(inv, log, TypeError, Step("none"))
    ELSE TryBody(inv, log, validateStripeId(input.subscriptionId, "subscription"),
             StripeCall("subscriptions.cancel", input.subscriptionId,
                        [cancellation_details |-> input.cancellationDetails]))

cancelSubscription(inv, log) ==
    LET input == inv.input IN
    IF input = NullInput THEN TryBody(inv, log, TypeError, Step("none"))
    ELSE TryBody(inv, log, validateStripeId(input.subscriptionId, "subscription"),
             IF input.cancelAtPeriodEnd
             THEN StripeCall("subscriptions.update", input.subscriptionId,
                             [cancel_at_period_end |-> TRUE,
                              cancellation_details |-> input.cancellationDetails])
             ELSE StripeCall("subscriptions.cancel", input.subscriptionId,
                             [cancellation_details |-> input.cancellationDetails]))

resumeSubscription(inv, log) ==
    TryBody(inv, log, validateStripeId(inv.input, "subscription"),
            StripeCall("subscriptions.update", inv.input, [cancel_at_period_end |-> FALSE]))

listSubscriptions(inv, log) ==
    LET input == inv.input IN
    TryBody(inv, log,
            IF input.customerId # NoId THEN validateStripeId(input.customerId, "customer")
            ELSE NoError,
            StripeCall("subscriptions.list", NoId,
                       [limit |-> sanitizeLimit(input.limit), customer |-> input.customerId]))

listProducts(inv, log) ==
    TryBody(inv, log, NoError,
            StripeCall("products.list", NoId, [limit |-> sanitizeLimit(inv.input.limit)]))

\* listProducts of the other version of the module: limit: input?.limit ?? 10
listProducts_other(inv, log) ==
    TryBody(inv, log, NoError,
            StripeCall("products.list", NoId,
                       [limit |-> IF inv.input.limit.defined THEN inv.input.limit
                                  ELSE Whole(10)]))

ServerFunction(inv, log) ==
    CASE inv.fn = "createPaymentIntent" -> createPaymentIntent(inv, log)
      [] inv.fn = "createCheckoutSession" -> createCheckoutSession(inv, log)
      [] inv.fn = "createPortalSession" -> createPortalSession(inv, log)
      [] inv.fn = "createSubscription" -> createSubscription(inv, log)
      [] inv.fn = "cancelSubscription" -> cancelSubscription(inv, log)
      [] inv.fn = "resumeSubscription" -> resumeSubscription(inv, log)
      [] inv.fn = "listSubscriptions" -> listSubscriptions(inv, log)
      [] inv.fn = "listProducts" -> listProducts(inv, log)
      [] inv.fn = "listProducts_other" -> listProducts_other(inv, log)

webhookVars == <<ctorVars, requestVars, twin>>

\* the application calls a server function
Invoke(fn, input) ==
    /\ invocation = NoInvocation
    /\ ServerFunction([NoInvocation EXCEPT !.entry = "function", !.fn = fn,
                                            !.input = input], <<>>)
    /\ UNCHANGED <<clientVars, webhookVars, restVars>>

\* await stripe.<method>(...) resolves: return success(...)
StripeResolves ==
    /\ invocation.pc = "await_stripe"
    /\ LET data == DataOf(trace[Len(trace)])
       IN Settle(invocation, success(data), Complete(trace, Resolved(data)))
    /\ UNCHANGED <<clientVars, webhookVars, restVars, remote>>

\* await stripe.<method>(...) rejects: return handleStripeError(error)
StripeRejects(error) ==
    /\ invocation.pc = "await_stripe"
    /\ Settle(invocation, handleStripeError(error), Complete(trace, Rejected(error)))
    /\ UNCHANGED <<clientVars, webhookVars, restVars, remote>>

\* the caller has its answer; the next call may start
Return ==
    /\ invocation.pc = "done"
    /\ invocation' = NoInvocation
    /\ trace' = <<>>
    /\ outcome' = NoOutcome
    /\ UNCHANGED <<clientVars, webhookVars, restVars, remote>>

\* ---------------------------------------------------------------- createActions, route helpers
AuthorizeResults == {"true", "false", "undefined"}
AuthorizeErrors == {Err("Unauthorized"), Err("session store down"),
                    [cls |-> "string", msg |-> "Unauthorized"]}
Unauthorized == Err("Unauthorized")
RouteFunctions == {"createPaymentIntent", "createCheckoutSession", "createPortalSession"}

\* an action of createActions(config) is called: await checkAuth() first
Action(fn, input) ==
    /\ invocation = NoInvocation
    /\ invocation' = [NoInvocation EXCEPT !.entry = "action", !.fn = fn, !.input = input,
                                           !.pc = "await_authorize"]
    /\ trace' = <<Step("authorize")>>
    /\ outcome' = NoOutcome
    /\ UNCHANGED <<clientVars, webhookVars, restVars, remote>>

\* POST(request) of create<X>Route(options): await options.authorize(request) first
RoutePOST(fn, beforeCreate) ==
    /\ invocation = NoInvocation
    /\ invocation' = [NoInvocation EXCEPT !.entry = "route", !.fn = fn,
                                           !.beforeCreate = beforeCreate,
                                           !.pc = "await_authorize"]
    /\ trace' = <<Step("authorize")>>
    /\ outcome' = NoOutcome
    /\ UNCHANGED <<clientVars, webhookVars, restVars, remote>>

\* the call ends by throwing (an action) or with an error response (a route)
Throw(error, log) ==
    /\ invocation' = [invocation EXCEPT !.pc = "done"]
    /\ outcome' = [NoOutcome EXCEPT !.kind = "threw", !.error = error]
    /\ trace' = log
    /\ UNCHANGED remote

Answer(r, log) ==
    /\ invocation' = [invocation EXCEPT !.pc = "done"]
    /\ outcome' = r
    /\ trace' = log
    /\ UNCHANGED remote

\* faulty variant: the catch answers 500 with the thrown error's message
RouteCatch_echo(error, log) ==
    Answer(errorResponse(IF error.cls = "Error" THEN error.msg ELSE "Internal error", 500), log)

\* catch (error) of a route: lines 453-458
RouteCatch(error, log) ==
    LET message == IF error.cls = "Error" /\ error.msg = "Unauthorized"
                   THEN "Unauthorized" ELSE "Internal error"
        status == IF message = "Unauthorized" THEN 401 ELSE 500
    IN Answer(errorResponse(message, status), log)

\* await authorize(...) resolves with result
AuthorizeReturns(result) ==
    /\ invocation.pc = "await_authorize"
    /\ LET log == Complete(trace, Resolved(result)) IN
       IF invocation.entry = "action"
       THEN IF result = "false"
            THEN Throw(Unauthorized, log)
            ELSE ServerFunction(invocation, log)
       ELSE IF result = "false"
            THEN Answer(errorResponse("Unauthorized", 401), log)
            ELSE /\ invocation' = [invocation EXCEPT !.pc = "await_json"]
                 /\ trace' = Append(log, Step("request.json"))
                 /\ UNCHANGED <<outcome, remote>>
    /\ UNCHANGED <<clientVars, webhookVars, restVars>>

\* await authorize(...) rejects with error
AuthorizeThrows(error) ==
    /\ invocation.pc = "await_authorize"
    /\ LET log == Complete(trace, Rejected(error)) IN
       IF invocation.entry = "action" THEN Throw(error, log) ELSE RouteCatch(error, log)
    /\ UNCHANGED <<clientVars, webhookVars, restVars>>

\* await request.json() resolves with input
JsonResolves(input) ==
    /\ invocation.pc = "await_json"
    /\ input \in InputsOf(invocation.fn)
    /\ LET log == Complete(trace, Resolved(input)) IN
       IF invocation.beforeCreate
       THEN /\ invocation' = [invocation EXCEPT !.pc = "await_beforeCreate", !.input = input]
            /\ trace' = Append(log, Step("beforeCreate"))
            /\ UNCHANGED <<outcome, remote>>
       ELSE ServerFunction([invocation EXCEPT !.input = input], log)
    /\ UNCHANGED <<clientVars, webhookVars, restVars>>

\* await request.json() rejects (the body is not JSON)
JsonRejects ==
    /\ invocation.pc = "await_json"
    /\ LET error == Err("Unexpected token in JSON")
       IN RouteCatch(error, Complete(trace, Rejected(error)))
    /\ UNCHANGED <<clientVars, webhookVars, restVars>>

\* await options.beforeCreate(input, request) resolves with the input to use
BeforeCreateResolves(input) ==
    /\ invocation.pc = "await_beforeCreate"
    /\ input \in InputsOf(invocation.fn)
    /\ ServerFunction([invocation EXCEPT !.input = input], Complete(trace, Resolved(input)))
    /\ UNCHANGED <<clientVars, webhookVars, restVars>>

\* await options.beforeCreate(input, request) rejects with error
BeforeCreateRejects(error) ==
    /\ invocation.pc = "await_beforeCreate"
    /\ RouteCatch(error, Complete(trace, Rejected(error)))
    /\ UNCHANGED <<clientVars, webhookVars, restVars>>

AllInputs == UNION {InputsOf(fn) : fn \in ServerFunctions}

\* ---------------------------------------------------------------- properties
CallsOf(fn) == {i \in DOMAIN calls : calls[i].fn = fn}
Count(fn) == Cardinality(CallsOf(fn))
Over == pc \in {"settled", "responded"}
\* the body the dispatcher was given
DispatchBody == IF req.entry = "pages" THEN reader.body ELSE req.body
\* the verification of this dispatch failed / succeeded (index of the call)
FailedVerifications == {i \in CallsOf("constructEvent") : calls[i].threw # NoError}
Verifications == {i \in CallsOf("constructEvent") : calls[i].threw = NoError}
ThrowingHandlers == {i \in CallsOf("handler") : calls[i].threw # NoError}

\* C1: when signature verification fails, at every point of that dispatch no
\* handler and no onUnhandledEvent has been invoked, dispatch does not return
\* a result (it raises), and onError, if configured, has been called exactly
\* once, with the verification error and no event.
C1_InvalidSignature ==
    \A i \in FailedVerifications :
        /\ Count("handler") = 0
        /\ Count("onUnhandledEvent") = 0
        /\ dispatch.kind # "returned"
        /\ Over => dispatch.kind = "raised"
        /\ IF config.onError
           THEN /\ Count("onError") = 1
                /\ \A j \in CallsOf("onError") :
                      /\ j > i
                      /\ calls[j].error = VerificationError(calls[i].threw)
                      /\ calls[j].event = NoEvent
           ELSE Count("onError") = 0

C1_Witness ==
    /\ FailedVerifications # {}
    /\ config.onError
    /\ Count("onError") = 1
    /\ pc = "settled"
    /\ dispatch.kind = "raised"

\* C2 (as claimed): when signature verification fails, dispatch never returns
\* a result and the error it raises is the verification error itself,
\* whatever onError does.
C2_VerificationErrorRaised ==
    \A i \in FailedVerifications :
        /\ dispatch.kind # "returned"
        /\ dispatch.kind = "raised" => dispatch.error = VerificationError(calls[i].threw)

\* C3 (as claimed): when a registered handler throws and onError is
\* configured, onError is called exactly once with (error, event), no
\* exception escapes dispatch and dispatch returns {received: true, type}.
C3_HandlerErrorSwallowed ==
    \A i \in ThrowingHandlers :
        config.onError =>
            /\ Count("onError") = 1
            /\ \A j \in CallsOf("onError") :
                  /\ calls[j].error = AsError(calls[i].threw)
                  /\ calls[j].event = calls[i].event
            /\ dispatch.kind # "raised"
            /\ Over => dispatch = Returned(calls[i].event.type)

\* C4: when a registered handler throws and onError is not configured, the
\* thrown value itself propagates out of dispatch and no result is returned.
C4_HandlerErrorPropagates ==
    \A i \in ThrowingHandlers :
        ~config.onError =>
            /\ dispatch = Raised(calls[i].threw)
            /\ Count("onError") = 0

C4_Witness ==
    /\ ~config.onError
    /\ \E i \in ThrowingHandlers : calls[i].threw.cls = "string"
    /\ dispatch.kind = "raised"

\* C5: when verification accepts (rawBody, signature) and the registered
\* handler of the event's type completes without throwing, that handler was
\* called exactly once with the verified event, verification was called once
\* with exactly (rawBody, signature, resolved secret), and dispatch returns
\* {received: true, type: event.type}.
C5_VerifiedEventHandled ==
    \A i \in CallsOf("handler") :
        (calls[i].done /\ calls[i].threw = NoError) =>
            /\ Count("handler") = 1
            /\ Count("constructEvent") = 1
            /\ \E v \in Verifications :
                  /\ v < i
                  /\ calls[v].event = calls[i].event
                  /\ calls[v].body = DispatchBody
                  /\ calls[v].signature = req.signature
                  /\ calls[v].secret = webhookSecret
            /\ HasHandler(calls[i].event.type)
            /\ dispatch = Returned(calls[i].event.type)

C5_Witness ==
    /\ \E i \in CallsOf("handler") : calls[i].done /\ calls[i].threw = NoError
    /\ config.secret = "whsec_custom"
    /\ currentConfig.webhookSecret = "whsec_test_mock"
    /\ dispatch.kind = "returned"

\* C6 (as claimed): when verification succeeds and no handler is registered
\* for the type, onUnhandledEvent, if configured, is called exactly once with
\* the event and dispatch returns {received: true, type}; if it is not
\* configured no callback is invoked and dispatch returns {received: true, type}.
C6_UnhandledEvent ==
    \A v \in Verifications :
        ~HasHandler(calls[v].event.type) =>
            /\ Count("handler") = 0
            /\ Count("onError") = 0
            /\ IF config.onUnhandledEvent
               THEN /\ Count("onUnhandledEvent") = 1
                    /\ \A j \in CallsOf("onUnhandledEvent") : calls[j].event = calls[v].event
                    /\ dispatch.kind # "raised"
                    /\ Over => dispatch = Returned(calls[v].event.type)
               ELSE /\ Count("onUnhandledEvent") = 0
                    /\ dispatch = Returned(calls[v].event.type)

\* C6 (amended): as C6, except that an onUnhandledEvent callback that throws
\* makes dispatch raise the callback's error (onError is not called).
C6_UnhandledEventAmended ==
    \A v \in Verifications :
        ~HasHandler(calls[v].event.type) =>
            /\ Count("handler") = 0
            /\ Count("onError") = 0
            /\ IF config.onUnhandledEvent
               THEN /\ Count("onUnhandledEvent") = 1
                    /\ \A j \in CallsOf("onUnhandledEvent") :
                          /\ calls[j].event = calls[v].event
                          /\ Over <=> calls[j].done
                          /\ calls[j].done =>
                                dispatch = IF calls[j].threw = NoError
                                           THEN Returned(calls[v].event.type)
                                           ELSE Raised(calls[j].threw)
               ELSE /\ Count("onUnhandledEvent") = 0
                    /\ dispatch = Returned(calls[v].event.type)

C6_Witness ==
    /\ \E v \in Verifications : ~HasHandler(calls[v].event.type)
    /\ config.onUnhandledEvent
    /\ \E j \in CallsOf("onUnhandledEvent") : calls[j].done /\ calls[j].threw = NoError
    /\ dispatch.kind = "returned"

\* C7: createWebhookHandler resolves the secret at construction: a given
\* config.secret is the secret of the dispatcher and of every verification
\* call, ahead of the process-wide webhookSecret; when config.secret is
\* omitted the process-wide webhookSecret is used; when neither is available
\* construction fails with an error and no dispatcher is built.
ProcessWideSecret == IF getConfigThrows THEN UNDEF ELSE getConfig.webhookSecret

C7_SecretResolution ==
    [][/\ (config'.built /\ ~config.built) =>
            /\ webhookSecret' = IF config'.secret # UNDEF THEN config'.secret
                                ELSE ProcessWideSecret
            /\ Truthy(webhookSecret')
            /\ ctorError' = NoError
       /\ ((ctorArg' # ctorArg \/ ctorError' # ctorError)
             /\ ctorArg'.secret = UNDEF /\ ProcessWideSecret = UNDEF) =>
            /\ ~config'.built
            /\ ctorError' \in {SecretRequired, NotInitialized}
       /\ config.built => (config' = config /\ webhookSecret' = webhookSecret)
       /\ \A i \in DOMAIN calls' :
            calls'[i].fn = "constructEvent" =>
                calls'[i].secret = IF config.secret # UNDEF THEN config.secret
                                   ELSE webhookSecret
      ]_vars

C7_Witness ==
    /\ config.built
    /\ config.secret = "whsec_custom"
    /\ currentConfig.webhookSecret = "whsec_test_mock"
    /\ \E i \in CallsOf("constructEvent") : calls[i].secret = "whsec_custom"

\* C8 (as claimed): in both adapters a POST without a stripe-signature header
\* is answered 400 {error: 'Missing stripe-signature header'} and neither
\* verification nor any handler or callback is invoked for it.
UnsignedPost ==
    /\ req.entry \in {"next", "pages"}
    /\ req.method = "POST"
    /\ req.signature = NULL
NothingDispatched ==
    /\ Count("constructEvent") = 0
    /\ Count("handler") = 0
    /\ Count("onError") = 0
    /\ Count("onUnhandledEvent") = 0
MissingSignature == ErrorResponse(400, "Missing stripe-signature header")

C8_MissingSignature ==
    UnsignedPost =>
        /\ NothingDispatched
        /\ pc = "responded" => response = MissingSignature

\* the adapter's size checks passed and the body was read without error
BodyAccepted ==
    IF req.entry = "pages"
    THEN reader.promise = "resolved"
    ELSE /\ \E i \in CallsOf("request.text") : calls[i].done /\ calls[i].threw = NoError
         /\ req.version = 1 => StringLength(req.body) <= MAX_BODY_SIZE

\* C8 (amended): a POST without a stripe-signature header is never verified
\* or dispatched; it is answered 400 {error: 'Missing stripe-signature
\* header'} when the adapter's size checks pass and the body is read without
\* error, and otherwise by the size check (413) or the catch block (400).
C8_MissingSignatureAmended ==
    UnsignedPost =>
        /\ NothingDispatched
        /\ pc = "responded" =>
              IF BodyAccepted
              THEN response = MissingSignature
              ELSE /\ response.status \in {400, 413}
                   /\ response.json = "error"
                   /\ response # MissingSignature

C8_Witness ==
    /\ UnsignedPost
    /\ pc = "responded"
    /\ BodyAccepted
    /\ response = MissingSignature
    /\ ~getStripeThrows

\* C9 (as claimed): in the App Router adapter every POST whose body is larger
\* than the cap is answered 413 {error: 'Webhook body too large'}, whether a
\* Content-Length header is present or truthful, and is never verified; a
\* body of exactly the cap is not rejected for its size.
TextFailed == \E i \in CallsOf("request.text") : calls[i].threw # NoError

C9_AppRouterSizeCap ==
    (req.entry = "next" /\ req.method = "POST") =>
        /\ ByteLength(req.body) > MAX_BODY_SIZE =>
              /\ Count("constructEvent") = 0
              /\ (pc = "responded" /\ ~TextFailed) =>
                    response = ErrorResponse(413, "Webhook body too large")
        /\ (ByteLength(req.body) = MAX_BODY_SIZE
              /\ ~ContentLengthTooLarge(req.contentLength)) =>
              response.status # 413

\* C10 (as claimed): in the Pages Router adapter a body exceeding the cap
\* (a string, a Buffer or streamed chunks) is answered 413 and the dispatcher
\* is never invoked.
PagesBodyTooLarge ==
    \/ req.bodyKind = "string" /\ StringLength(req.body) > MAX_BODY_SIZE
    \/ req.bodyKind = "buffer" /\ ByteLength(req.body) > MAX_BODY_SIZE
    \/ req.bodyKind = "stream" /\ reader.totalLength > MAX_BODY_SIZE

C10_PagesSizeCap ==
    (req.entry = "pages" /\ req.method = "POST" /\ PagesBodyTooLarge) =>
        /\ NothingDispatched
        /\ pc = "responded" => response.status = 413

\* C11 (as claimed): both adapters answer a request whose method is not POST
\* with 405, without reading the body, verifying or invoking anything.
C11_PostOnly ==
    (req.entry \in {"next", "pages"} /\ req.method # "POST") =>
        /\ NothingDispatched
        /\ Count("request.text") = 0
        /\ reader.promise = "none"
        /\ pc = "responded" => response = EmptyResponse(405)

\* C12: in both adapters, when dispatch returns a result the response is 200
\* with the dispatch result {received: true, type: event.type} as its body,
\* also when a handler threw and onError was notified; a 200 is sent for no
\* other request.
C12_SuccessResponse ==
    (req.entry \in {"next", "pages"} /\ pc = "responded") =>
        /\ dispatch.kind = "returned" =>
              /\ response.status = 200
              /\ response.json = "result"
              /\ response.type = event.type
              /\ dispatch.received
              /\ Truthy(req.signature)
        /\ response.status = 200 => dispatch.kind = "returned"

C12_Witness ==
    /\ req.entry \in {"next", "pages"}
    /\ pc = "responded"
    /\ response.status = 200
    /\ ThrowingHandlers # {}
    /\ Count("onError") = 1

\* C13 (as claimed): in both adapters, when dispatch fails the response is
\* 400 with JSON body {error: <message of the error dispatch raised>}.
C13_FailureResponse ==
    (req.entry \in {"next", "pages"} /\ pc = "responded" /\ dispatch.kind = "raised") =>
        /\ response.status = 400
        /\ response.json = "error"
        /\ response.error = dispatch.error.msg

\* C13 (amended): when dispatch fails the response is 400 with a JSON error
\* body: the first version answers the fixed text 'Webhook processing failed'
\* and writes the error's message ('Unknown error' for a non-Error value) to
\* console.error; the other version answers the error's message ('Webhook
\* handler failed' for a non-Error value) and logs nothing.
C13_FailureResponseAmended ==
    (req.entry \in {"next", "pages"} /\ pc = "responded" /\ dispatch.kind = "raised") =>
        /\ response.status = 400
        /\ response.json = "error"
        /\ IF req.version = 1
           THEN /\ response.error = "Webhook processing failed"
                /\ console = << IF dispatch.error.cls = "Error"
                                THEN dispatch.error.msg ELSE "Unknown error" >>
           ELSE /\ response.error = IF dispatch.error.cls = "Error"
                                    THEN dispatch.error.msg ELSE "Webhook handler failed"
                /\ console = <<>>

C13_Witness ==
    /\ req.entry \in {"next", "pages"}
    /\ req.version = 1
    /\ pc = "responded"
    /\ FailedVerifications # {}
    /\ dispatch.kind = "raised"
    /\ response.status = 400

\* the deliveries of a verified event whose type has a registered handler
Handled == {i \in DOMAIN deliveries :
               deliveries[i].event # NoEvent /\ HasHandler(deliveries[i].event.type)}

OwnEvent(d) ==
    IF \E i \in DOMAIN d.calls : d.calls[i].fn = "constructEvent" /\ d.calls[i].threw = NoError
    THEN LET i == CHOOSE j \in DOMAIN d.calls :
                      d.calls[j].fn = "constructEvent" /\ d.calls[j].threw = NoError
         IN  d.calls[i].event
    ELSE NoEvent

\* call d has done what it would have done alone: it calls the handler (or
\* onUnhandledEvent, or onError after a handler failure) of its own event
\* with its own event, once, and returns the type of its own event
Unaffected(d) ==
    LET own == OwnEvent(d)
        idx(fn) == {i \in DOMAIN d.calls : d.calls[i].fn = fn}
    IN  /\ \A i \in idx("handler") : d.calls[i].event = own /\ HasHandler(own.type)
        /\ \A i \in idx("onUnhandledEvent") : d.calls[i].event = own /\ ~HasHandler(own.type)
        /\ \A i \in idx("onError") : d.calls[i].event = own
        /\ Cardinality(idx("handler")) <= 1
        /\ (d.pc # "idle" /\ own # NoEvent /\ HasHandler(own.type)) =>
               Cardinality(idx("handler")) = 1
        /\ d.dispatch.kind = "returned" =>
               /\ own # NoEvent
               /\ d.dispatch = Returned(own.type)
               /\ \A i \in DOMAIN d.calls : d.calls[i].done

\* C23: for any interleaving of two in-flight dispatches of one dispatcher,
\* each dispatch invokes the handler of its own event with its own event and
\* returns the type of its own event, as if it had run alone.
C23_NoInterference ==
    /\ Unaffected(Locals)
    /\ other # NoDispatch => Unaffected(other)

\* one call has returned its own type while the other, for another event, is
\* still waiting for its handler
C23_Witness ==
    /\ other # NoDispatch
    /\ other.pc = "await_handler"
    /\ other.event.type = "unknown.event"
    /\ pc = "settled"
    /\ dispatch = Returned("payment_intent.succeeded")
    /\ Count("handler") = 1
    /\ calls[Len(calls)].event # other.event

\* the closure of the first and of the second dispatcher of the process: the
\* configuration and the secret createWebhookHandler resolved
FirstClosure ==
    IF twin.phase = 2 THEN <<twin.config, twin.webhookSecret>> ELSE <<config, webhookSecret>>
SecondClosure ==
    IF twin.phase = 2 THEN <<config, webhookSecret>> ELSE <<twin.config, twin.webhookSecret>>

FixedConfiguration ==
    /\ config.built => FirstClosure' = FirstClosure
    /\ twin.phase > 0 => SecondClosure' = SecondClosure
    /\ \A i \in DOMAIN calls' :
          calls'[i].fn = "constructEvent" => calls'[i].secret = webhookSecret'

\* C24: once a dispatcher is constructed no step (a dispatch, a later
\* initStripe with another webhookSecret, another dispatcher being built)
\* changes its secret, its handler registry or its callbacks, and every
\* verification is passed the secret of the dispatcher that runs it.
C24_FixedConfiguration == [][FixedConfiguration]_vars

\* the first dispatcher took its secret from the process-wide configuration,
\* initStripe then rotated that secret and a second dispatcher was built with
\* it; the first dispatcher verifies with the secret it was built with
C24_Witness ==
    /\ twin.phase = 1
    /\ config.secret = UNDEF
    /\ webhookSecret = "whsec_test_mock"
    /\ currentConfig.webhookSecret = "whsec_rotated"
    /\ twin.webhookSecret = "whsec_rotated"
    /\ Count("constructEvent") = 1
    /\ \A i \in CallsOf("constructEvent") : calls[i].secret = "whsec_test_mock"
    /\ dispatch.kind = "returned"

\* C25: the Pages Router adapter sends exactly one response per request on
\* every path (405, body-read rejection, stream error, missing signature,
\* dispatch failure, success): never a second one, whatever the stream emits
\* after the promise of getRawBody settled, and one when the request is over.
C25_OneResponse ==
    req.entry = "pages" =>
        /\ response.sent <= 1
        /\ pc = "responded" <=> response.sent = 1
        /\ response.sent = 1 => response.status \in {200, 400, 405}

\* the body exceeded the cap in the middle of the stream, the request was
\* answered 400, and the stream has emitted 'end' or 'error' since the rejection
C25_Witness ==
    /\ req.entry = "pages"
    /\ req.version = 1
    /\ pc = "responded"
    /\ response.status = 400
    /\ response.sent = 1
    /\ reader.rejected
    /\ reader.error = BodyTooLarge
    /\ ~reader.open

\* C27 (as claimed): getStripe and getConfig throw 'not initialized' until
\* initStripe was called; after any sequence of initStripe calls getStripe
\* returns the client of the most recent call and getConfig its
\* configuration with secretKey removed, both from the same call.
C27_ClientLifecycle ==
    /\ getStripeThrows <=> getConfigThrows
    /\ ~getConfigThrows =>
          /\ getStripe.secretKey = currentConfig.secretKey
          /\ \A version \in {1, 2} :
                /\ getConfigOf(version).webhookSecret = currentConfig.webhookSecret
                /\ "secretKey" \notin DOMAIN getConfigOf(version)

\* C21 (as claimed): in the App Router adapter, for every request whose body
\* exceeds the cap the 413 response is decided before request.text() is
\* called: request.text() is never called for such a request.
C21_CapBeforeRead ==
    (req.entry = "next" /\ req.method = "POST" /\ ByteLength(req.body) > MAX_BODY_SIZE) =>
        Count("request.text") = 0

\* ---------------------------------------------------------------- two dispatchers: properties
\* both dispatchers have been given the request and both runs are over
TwinOver ==
    /\ twin.phase = 2
    /\ req = twin.req
    /\ \/ pc = "settled" /\ req.entry = "direct"
       \/ pc = "responded"
\* what the environment was asked and what it answered, call by call: the
\* verification of (body, signature, secret), the callbacks with their
\* arguments, the reading of the request's text
Asked(c) ==
    IF c.fn = "constructEvent" THEN <<c.fn, c.body, c.signature, c.secret>>
    ELSE IF c.fn = "request.text" THEN <<c.fn>>
    ELSE <<c.fn, c.event, c.error>>
Answered(c) ==
    IF c.fn = "constructEvent" THEN <<c.event, c.threw>>
    ELSE IF c.fn = "request.text" THEN <<c.body, c.threw>>
    ELSE <<c.done, c.threw>>
Shared == 1 .. (IF Len(calls) < Len(twin.calls) THEN Len(calls) ELSE Len(twin.calls))
\* the environment gave both runs the same answer to the same question
SameAnswers ==
    \A i \in Shared :
        Asked(calls[i]) = Asked(twin.calls[i]) => Answered(calls[i]) = Answered(twin.calls[i])
SameOutcome ==
    /\ calls = twin.calls
    /\ dispatch = twin.dispatch
    /\ response = twin.response
    /\ console = twin.console

\* C14 as stated: two dispatchers constructed from the same configuration and
\* given the same (rawBody, signature) have identical outcomes: the same
\* result or error and the same calls with the same arguments.
C14_SameOutcome ==
    (TwinOver /\ ctorArg = twin.arg /\ SameAnswers) => SameOutcome

\* C14 amended: the same holds when, besides, the process-wide client
\* configuration is the same for both dispatchers: they resolved the same
\* secret and initStripe did not change the client between the second
\* construction and the end of the second dispatch.
SameClient == webhookSecret = twin.webhookSecret /\ clientVars = twin.client
C14_SameOutcomeAmended ==
    (TwinOver /\ ctorArg = twin.arg /\ SameClient /\ SameAnswers) => SameOutcome

\* both dispatchers verified the event and awaited the handler, which threw
C14_Witness ==
    /\ TwinOver /\ ctorArg = twin.arg /\ SameClient /\ SameAnswers
    /\ req.entry = "direct"
    /\ Verifications # {}
    /\ ThrowingHandlers # {}
    /\ Count("onError") = 1
    /\ dispatch.kind = "returned"

\* the calls without the secret handed to constructEvent
Redacted(log) == [i \in DOMAIN log |-> [log[i] EXCEPT !.secret = NULL]]
\* the same answers, whatever the secret the verification was made with
SameAnswersButSecret ==
    \A i \in Shared :
        Asked(Redacted(calls)[i]) = Asked(Redacted(twin.calls)[i]) =>
            Answered(calls[i]) = Answered(twin.calls[i])
\* the two runs differ only in the value of the webhook secret
OnlySecretDiffers ==
    /\ [ctorArg EXCEPT !.secret = UNDEF] = [twin.arg EXCEPT !.secret = UNDEF]
    /\ stripeInstance = twin.client[1]
    /\ (stripeInstance = NoInstance) = (currentConfig = NoConfig)

\* C15: two runs that differ only in the value of the webhook secret, and in
\* which the verification has the same outcome, give the same HTTP response,
\* the same dispatch result or error, the same arguments to the handlers,
\* onError and onUnhandledEvent, and the same console.error text.
C15_SecretNotEchoed ==
    (TwinOver /\ OnlySecretDiffers /\ SameAnswersButSecret) =>
        /\ Redacted(calls) = Redacted(twin.calls)
        /\ dispatch = twin.dispatch
        /\ response = twin.response
        /\ console = twin.console

\* two secrets, a failed verification reported to onError, answered 400 and logged
C15_Witness ==
    /\ TwinOver /\ OnlySecretDiffers /\ SameAnswersButSecret
    /\ webhookSecret # twin.webhookSecret
    /\ req.entry = "next" /\ req.version = 1
    /\ FailedVerifications # {}
    /\ Count("onError") = 1
    /\ response.status = 400
    /\ console # <<>>

\* ---------------------------------------------------------------- client hooks
\* usePayment (two versions) and useSetupIntent. hook holds the React state of
\* the mounted hook, whether useStripe()/useElements() have loaded, how many
\* calls await stripe.confirmPayment / stripe.confirmSetup, and what the
\* last call did (its answer from Stripe, the callbacks it called, what it
\* returned or that it threw).
InitialPayment ==
    [isProcessing |-> FALSE, isSuccess |-> FALSE, error |-> NULL, paymentIntentId |-> NULL]
InitialSetup ==
    [isProcessing |-> FALSE, isSuccess |-> FALSE, error |-> NULL, setupIntentId |-> NULL,
     paymentMethodId |-> NULL]
InitialState(kind) == IF kind = "usePayment" THEN InitialPayment ELSE InitialSetup
ProcessingState(kind) == [InitialState(kind) EXCEPT !.isProcessing = TRUE]

\* what stripe.confirmPayment / stripe.confirmSetup resolve with: { error,
\* paymentIntent } / { error, setupIntent }
NoStripeError == [present |-> FALSE, message |-> UNDEF]
StripeError(m) == [present |-> TRUE, message |-> m]
NoMethod == [kind |-> "null", id |-> NULL]
MethodId(id) == [kind |-> "string", id |-> id]
MethodObject(id) == [kind |-> "object", id |-> id]
NoIntent == [id |-> NULL, status |-> UNDEF, payment_method |-> NoMethod]
Intent(id, status, pm) == [id |-> id, status |-> status, payment_method |-> pm]
StripeErrors == {NoStripeError, StripeError("Your card was declined."), StripeError(UNDEF)}
PaymentIntents ==
    {NoIntent, Intent("pi_123", "succeeded", NoMethod),
     Intent("pi_456", "requires_action", NoMethod)}
SetupIntents ==
    {NoIntent, Intent("seti_456", "requires_action", NoMethod)} \cup
    {Intent("seti_123", "succeeded", pm) :
        pm \in {NoMethod, MethodId("pm_123"), MethodObject("pm_456")}}
NoAnswer == [kind |-> "none", error |-> NoStripeError, intent |-> NoIntent]
Answer_(e, i) == [kind |-> "resolved", error |-> e, intent |-> i]
Rejection == [kind |-> "rejected", error |-> NoStripeError, intent |-> NoIntent]
PaymentAnswers == {Answer_(e, i) : e \in StripeErrors, i \in PaymentIntents}
SetupAnswers == {Answer_(e, i) : e \in StripeErrors, i \in SetupIntents}

\* what a call returned: { success, error?, status?, paymentIntentId? /
\* setupIntentId? }, or that it threw
NoReturn == [kind |-> "none", success |-> FALSE, error |-> UNDEF, status |-> UNDEF, id |-> UNDEF]
Failure(m) == [NoReturn EXCEPT !.kind = "returned", !.error = m]
Success(id) == [NoReturn EXCEPT !.kind = "returned", !.success = TRUE, !.id = id]
Incomplete(status) == [NoReturn EXCEPT !.kind = "returned", !.status = status]
Threw == [NoReturn EXCEPT !.kind = "threw"]

NoLast == [op |-> "none", answer |-> NoAnswer, onError |-> 0, onSuccess |-> 0,
           result |-> NoReturn]
Last(op, answer, onError, onSuccess, result) ==
    [op |-> op, answer |-> answer, onError |-> onError, onSuccess |-> onSuccess,
     result |-> result]

HookKinds == {"usePayment", "useSetupIntent"}
ReturnUrls == {UNDEF, "https://example.com/ok", "not a url"}
hookOthers == <<clientVars, webhookVars, serverVars, deliveries, other>>

\* the component renders the hook for the first time: useState(initial)
Mount(kind, version, callbacks) ==
    /\ hook = NoHook
    /\ kind = "useSetupIntent" => version = 1
    /\ hook' = [kind |-> kind, version |-> version, callbacks |-> callbacks, ready |-> FALSE,
                state |-> InitialState(kind), pending |-> 0, last |-> NoLast]
    /\ UNCHANGED hookOthers

\* useStripe() and useElements() return their objects from now on
StripeLoads ==
    /\ hook # NoHook
    /\ ~hook.ready
    /\ hook' = [hook EXCEPT !.ready = TRUE]
    /\ UNCHANGED hookOthers

\* options?.onError?.(message) / options?.onSuccess?.(...): one call when the
\* callback was given
Called(h) == IF h.callbacks THEN 1 ELSE 0

\* validateReturnUrl of the other version of usePayment throws
validateReturnUrl(url) == url # "https://example.com/ok"

\* processPayment / confirmSetup up to `await stripe.confirm...(...)`
Start(h, op, returnUrl) ==
    IF ~h.ready
    THEN [h EXCEPT !.state.error = "Stripe not loaded yet",
                   !.last = Last(op, NoAnswer, 0, 0, Failure("Stripe not loaded yet"))]
    ELSE IF h.version = 2 /\ returnUrl # UNDEF /\ validateReturnUrl(returnUrl)
    THEN [h EXCEPT !.last = Last(op, NoAnswer, 0, 0, Threw)]
    ELSE [h EXCEPT !.state = ProcessingState(h.kind), !.pending = @ + 1,
                   !.last = Last(op, NoAnswer, 0, 0, NoReturn)]

processPayment(returnUrl) ==
    /\ hook # NoHook
    /\ hook.kind = "usePayment"
    /\ hook.pending < MaxCalls
    /\ hook' = Start(hook, "processPayment", returnUrl)
    /\ UNCHANGED hookOthers

confirmSetup(returnUrl) ==
    /\ hook # NoHook
    /\ hook.kind = "useSetupIntent"
    /\ hook.pending < MaxCalls
    /\ hook' = Start(hook, "confirmSetup", returnUrl)
    /\ UNCHANGED hookOthers

\* faulty variant: any payment intent returned without error counts as paid
AfterConfirmPayment_anyStatus(h, answer) ==
    IF answer.error.present
    THEN LET message == IF answer.error.message = UNDEF THEN "Payment failed"
                        ELSE answer.error.message
         IN [h EXCEPT !.state = [InitialPayment EXCEPT !.error = message],
                      !.last = Last("processPayment", answer, Called(h), 0, Failure(message))]
    ELSE IF answer.intent # NoIntent
    THEN [h EXCEPT !.state = [InitialPayment EXCEPT !.isSuccess = TRUE,
                                                    !.paymentIntentId = answer.intent.id],
                   !.last = Last("processPayment", answer, 0, Called(h),
                                 Success(answer.intent.id))]
    ELSE [h EXCEPT !.state = [InitialPayment EXCEPT !.paymentIntentId = answer.intent.id],
                   !.last = Last("processPayment", answer, 0, 0,
                                 Incomplete(answer.intent.status))]

\* processPayment after `await stripe.confirmPayment(...)` resolved
AfterConfirmPayment(h, answer) ==
    IF answer.error.present
    THEN LET message == IF answer.error.message = UNDEF THEN "Payment failed"
                        ELSE answer.error.message
         IN [h EXCEPT !.state = [InitialPayment EXCEPT !.error = message],
                      !.last = Last("processPayment", answer, Called(h), 0, Failure(message))]
    ELSE IF answer.intent.status = "succeeded"
    THEN [h EXCEPT !.state = [InitialPayment EXCEPT !.isSuccess = TRUE,
                                                    !.paymentIntentId = answer.intent.id],
                   !.last = Last("processPayment", answer, 0, Called(h),
                                 Success(answer.intent.id))]
    ELSE [h EXCEPT !.state = [InitialPayment EXCEPT !.paymentIntentId = answer.intent.id],
                   !.last = Last("processPayment", answer, 0, 0,
                                 Incomplete(answer.intent.status))]

\* confirmSetup after `await stripe.confirmSetup(...)` resolved
AfterConfirmSetup(h, answer) ==
    IF answer.error.present
    THEN LET message == IF answer.error.message = UNDEF THEN "Setup failed"
                        ELSE answer.error.message
         IN [h EXCEPT !.state = [InitialSetup EXCEPT !.error = message],
                      !.last = Last("confirmSetup", answer, Called(h), 0, Failure(message))]
    ELSE IF answer.intent.status = "succeeded"
    THEN LET pmId == answer.intent.payment_method.id
         IN [h EXCEPT !.state = [InitialSetup EXCEPT !.isSuccess = TRUE,
                                                     !.setupIntentId = answer.intent.id,
                                                     !.paymentMethodId = pmId],
                      !.last = Last("confirmSetup", answer, 0,
                                    IF pmId # NULL THEN Called(h) ELSE 0,
                                    Success(answer.intent.id))]
    ELSE [h EXCEPT !.state = [InitialSetup EXCEPT !.setupIntentId = answer.intent.id],
                   !.last = Last("confirmSetup", answer, 0, 0,
                                 Incomplete(answer.intent.status))]

confirmPaymentResolves(answer) ==
    /\ hook # NoHook
    /\ hook.kind = "usePayment"
    /\ hook.pending > 0
    /\ hook' = AfterConfirmPayment([hook EXCEPT !.pending = @ - 1], answer)
    /\ UNCHANGED hookOthers

confirmSetupResolves(answer) ==
    /\ hook # NoHook
    /\ hook.kind = "useSetupIntent"
    /\ hook.pending > 0
    /\ hook' = AfterConfirmSetup([hook EXCEPT !.pending = @ - 1], answer)
    /\ UNCHANGED hookOthers

\* `await stripe.confirmPayment(...)` / `await stripe.confirmSetup(...)`
\* rejects: there is no try around it, the call of the hook rejects
confirmRejects ==
    /\ hook # NoHook
    /\ hook.pending > 0
    /\ hook' = [hook EXCEPT !.pending = @ - 1,
                            !.last = Last(IF hook.kind = "usePayment" THEN "processPayment"
                                          ELSE "confirmSetup",
                                          Rejection, 0, 0, Threw)]
    /\ UNCHANGED hookOthers

reset ==
    /\ hook # NoHook
    /\ hook' = [hook EXCEPT !.state = InitialState(hook.kind),
                            !.last = Last("reset", NoAnswer, 0, 0, NoReturn)]
    /\ UNCHANGED hookOthers

\* ---------------------------------------------------------------- server functions: properties
StripeSteps == {i \in DOMAIN trace : trace[i].step = "stripe"}
StepsOf(kind) == {i \in DOMAIN trace : trace[i].step = kind}
\* the server function of this call has been entered
FunctionCalled ==
    \/ invocation.entry = "function"
    \/ /\ invocation.entry = "action"
       /\ trace[1].answer.kind = "resolved" /\ trace[1].answer.value # "false"
    \/ /\ invocation.entry = "route"
       /\ \E i \in StepsOf("request.json") : trace[i].answer.kind = "resolved"
       /\ invocation.beforeCreate =>
             \E i \in StepsOf("beforeCreate") : trace[i].answer.kind = "resolved"
FunctionReturned == FunctionCalled /\ invocation.pc = "done"
\* inputs the validators are documented to refuse
InvalidInput ==
    LET fn == invocation.fn
        input == invocation.input
    IN \/ input = NullInput
       \/ /\ fn = "createPaymentIntent" /\ input # NullInput
          /\ \/ input.amount < 0
             \/ input.amount > 99999999
             \/ input.currency = "euro"
             \/ input.customerId \notin {NoId, Id("cus_", "123")}
       \/ /\ fn = "cancelSubscription" /\ input # NullInput
          /\ input.subscriptionId # Id("sub_", "123")
       \/ fn = "resumeSubscription" /\ input # Id("sub_", "123")

\* the input of this call is one a validator of the function refuses: an
\* amount out of range, a currency that is not three letters, an id that is
\* missing or has another prefix, a URL that is missing, unparsable or not
\* http(s), metadata beyond the limits
BadId(id, prefix) == id = NoId \/ id.prefix # prefix
BadOptionalId(id, prefix) == id # NoId /\ id.prefix # prefix
BadUrl(url) == url # "https://example.com/ok"
BadMetadata(m) ==
    /\ m.present
    /\ \/ Len(m.entries) > 50
       \/ \E i \in DOMAIN m.entries :
             \/ m.entries[i].keyLength > 40
             \/ ~m.entries[i].string
             \/ m.entries[i].valueLength > 500
ValidatorRejects ==
    LET fn == invocation.fn
        input == invocation.input
    IN /\ input # NullInput
       /\ \/ /\ fn = "createPaymentIntent"
             /\ \/ input.amount < 0 \/ input.amount > 99999999
                \/ Len(Normalized(input.currency)) # 3
                \/ BadOptionalId(input.customerId, "cus_")
          \/ /\ fn = "createCheckoutSession"
             /\ \/ BadUrl(input.successUrl) \/ BadUrl(input.cancelUrl)
                \/ BadOptionalId(input.customerId, "cus_")
          \/ /\ fn = "createPortalSession"
             /\ \/ BadId(input.customerId, "cus_")
                \/ input.returnUrl # "" /\ BadUrl(input.returnUrl)
          \/ /\ fn = "createSubscription"
             /\ BadId(input.customerId, "cus_") \/ BadMetadata(input.metadata)
          \/ fn = "cancelSubscription" /\ BadId(input.subscriptionId, "sub_")
          \/ fn = "resumeSubscription" /\ BadId(input, "sub_")

\* C26: in the validating server functions, when a validator rejects an input
\* no Stripe method is called and the function returns {data: null, error}
\* whose type is 'sdk_error', with the validator's message and no code.
C26_ValidatorRejects ==
    (FunctionCalled /\ ValidatorRejects) =>
        /\ StripeSteps = {}
        /\ invocation.pc = "done"
        /\ outcome.result.data = NoData
        /\ outcome.result.error.type = "sdk_error"
        /\ outcome.result.error.code = UNDEF
        /\ outcome.result.error.message \notin {NULL, "An unknown error occurred",
                                                NotInitialized.msg, TypeError.msg}

\* createSubscription was given a valid customer and 51 metadata keys
C26_Witness ==
    /\ invocation.entry = "function"
    /\ invocation.fn = "createSubscription"
    /\ invocation.input # NullInput
    /\ invocation.input.customerId = Id("cus_", "123")
    /\ Len(invocation.input.metadata.entries) = 51
    /\ stripeInstance # NoInstance
    /\ invocation.pc = "done"
    /\ StripeSteps = {}
    /\ outcome.result = [data |-> NoData,
                         error |-> [message |-> "Metadata cannot have more than 50 keys",
                                    type |-> "sdk_error", code |-> UNDEF, statusCode |-> 0]]

\* the whole numbers 1..100
InRange == {Whole(n) : n \in 1..100}
ListSteps == {i \in StripeSteps : trace[i].method \in {"subscriptions.list", "products.list"}}

\* sanitizeLimit over the limits of the model: an integer limit gives an
\* integer in 1..100 (1 below the range, 100 above it, itself within it) and
\* an undefined limit gives 10
Sanitized ==
    /\ sanitizeLimit(NoNumber) = Whole(10)
    /\ \A l \in Limits \ {NoNumber} :
          /\ sanitizeLimit(l) \in InRange
          /\ l.tenths % 10 = 0 =>
                /\ l.tenths < 10 => sanitizeLimit(l) = Whole(1)
                /\ l.tenths > 1000 => sanitizeLimit(l) = Whole(100)
                /\ l \in InRange => sanitizeLimit(l) = l

\* C30 (as claimed): sanitizeLimit maps every integer limit into 1..100 and
\* an undefined limit to 10, and every list function passes a limit within
\* 1..100 to the Stripe SDK.
C30_LimitInRange ==
    /\ Sanitized
    /\ \A i \in ListSteps : trace[i].params.limit \in InRange

\* C16: a server function never throws and returns an SDKResult in which
\* exactly one of data and error is null; a refused input, an uninitialised
\* client and a rejected Stripe call all give {data: null, error}, whose type
\* is the thrown value's type when that is truthy and 'sdk_error' otherwise.
C16_SDKResult ==
    FunctionReturned =>
        LET r == outcome.result IN
        /\ outcome.kind # "threw"
        /\ invocation.entry # "route" => outcome.kind = "returned"
        /\ (r.data = NoData) # (r.error = NoSDKError)
        /\ (InvalidInput \/ stripeInstance = NoInstance) =>
              /\ r.data = NoData
              /\ r.error.type = "sdk_error"
              /\ StripeSteps = {}
        /\ \A i \in StripeSteps :
              /\ trace[i].answer.kind = "rejected" =>
                    /\ r.data = NoData
                    /\ r.error.type = IF Truthy(trace[i].answer.error.type)
                                      THEN trace[i].answer.error.type ELSE "sdk_error"
              /\ trace[i].answer.kind = "resolved" =>
                    r = [data |-> trace[i].answer.value, error |-> NoSDKError]

\* a Stripe error rejected the call and its type is reported
C16_Witness ==
    /\ FunctionReturned
    /\ invocation.entry = "function"
    /\ invocation.fn = "createPaymentIntent"
    /\ \E i \in StripeSteps : /\ trace[i].answer.kind = "rejected"
                              /\ trace[i].answer.error.type = "StripeCardError"
    /\ outcome.result.error.type = "StripeCardError"
    /\ outcome.result.data = NoData

\* the authorize callback refused the call: it returned false or it threw
Denied ==
    /\ invocation.entry \in {"action", "route"}
    /\ \/ trace[1].answer = Resolved("false")
       \/ trace[1].answer.kind = "rejected"
DeniedAsUnauthorized ==
    \/ trace[1].answer = Resolved("false")
    \/ trace[1].answer = Rejected(Err("Unauthorized"))

C18_CancelAndResume ==
    /\ Cardinality(StripeSteps) <= 1
    /\ (invocation.fn = "cancelSubscription" /\ invocation.input # NullInput) =>
          \A i \in StripeSteps :
              /\ trace[i].id = invocation.input.subscriptionId
              /\ IF invocation.input.cancelAtPeriodEnd
                 THEN /\ trace[i].method = "subscriptions.update"
                      /\ trace[i].params.cancel_at_period_end = TRUE
                 ELSE /\ trace[i].method = "subscriptions.cancel"
    /\ invocation.fn = "resumeSubscription" =>
          \A i \in StripeSteps :
              /\ trace[i].id = invocation.input
              /\ trace[i].method = "subscriptions.update"
              /\ trace[i].params = [cancel_at_period_end |-> FALSE]
              /\ remote.cancel_at_period_end = "false"

\* a resume after a cancellation at period end
C18_Witness ==
    /\ invocation.fn = "resumeSubscription"
    /\ invocation.pc = "done"
    /\ outcome.result.error = NoSDKError
    /\ StripeSteps # {}
    /\ remote = [cancel_at_period_end |-> "false", before |-> "true"]

\* C19: in every dispatch at most one of {the registered handler of the
\* event's type, onUnhandledEvent} is invoked, at most once, never both, and
\* dispatch does not return its result while a handler or callback it invoked
\* has not completed.
UserCalls == CallsOf("handler") \cup CallsOf("onUnhandledEvent")

C19_OneHandlerAwaited ==
    /\ Cardinality(UserCalls) <= 1
    /\ \A i \in CallsOf("handler") : calls[i].event = event /\ HasHandler(event.type)
    /\ \A i \in CallsOf("onUnhandledEvent") : calls[i].event = event /\ ~HasHandler(event.type)
    /\ dispatch.kind = "returned" =>
          \A i \in UserCalls \cup CallsOf("onError") : calls[i].done

C19_Witness ==
    /\ Count("handler") = 1
    /\ config.onUnhandledEvent
    /\ dispatch.kind = "returned"
    /\ \A i \in CallsOf("handler") : calls[i].done

\* C20: streaming body reader: the bytes held in the chunk buffer never
\* exceed the cap; the read is rejected at the first chunk that takes the
\* running total over the cap and that chunk is not buffered; once rejected,
\* later chunks are discarded and a later 'end' does not resolve the read; a
\* stream that ends within the cap (also at exactly the cap) resolves with
\* the full body.
StreamRead == req.entry = "pages" /\ req.bodyKind = "stream"

C20_BufferWithinCap ==
    StreamRead =>
        /\ SumSeq(reader.chunks) <= MAX_BODY_SIZE
        /\ reader.totalLength > MAX_BODY_SIZE =>
              reader.promise = "rejected" /\ reader.error = BodyTooLarge
        /\ reader.promise = "resolved" =>
              /\ reader.body = Body(reader.totalLength, 0)
              /\ SumSeq(reader.chunks) = reader.totalLength

C20_StreamingReader ==
    /\ []C20_BufferWithinCap
    /\ [][(StreamRead /\ req' = req) =>
            /\ (reader.totalLength <= MAX_BODY_SIZE /\ reader'.totalLength > MAX_BODY_SIZE) =>
                  /\ reader'.chunks = reader.chunks
                  /\ reader.promise = "pending"
                  /\ reader'.promise = "rejected"
            /\ reader.promise = "rejected" =>
                  /\ reader'.promise = "rejected"
                  /\ reader'.error = reader.error
                  /\ reader'.chunks = reader.chunks
            /\ (reader.open /\ ~reader'.open /\ reader.promise = "pending") =>
                  \/ /\ reader'.promise = "resolved"
                     /\ reader'.body = Body(reader.totalLength, 0)
                  \/ /\ reader'.promise = "rejected"
                     /\ reader'.error = StreamError
         ]_vars

C20_Witness ==
    /\ StreamRead
    /\ reader.promise = "resolved"
    /\ reader.totalLength = MAX_BODY_SIZE
    /\ Len(reader.chunks) = 2

C20_WitnessRejected ==
    /\ StreamRead
    /\ reader.promise = "rejected"
    /\ reader.error = BodyTooLarge
    /\ reader.events = 2
    /\ reader.chunks = <<>>

\* ---------------------------------------------------------------- client hooks: properties
\* C28: usePayment, over any sequence of processPayment and reset calls:
\* isProcessing and isSuccess are never both true; isSuccess implies error is
\* null and paymentIntentId is the id of an intent whose status was
\* 'succeeded'; a confirmation error sets error to its message with isSuccess
\* false and calls onError once; a non-succeeded status without error leaves
\* isSuccess false and error null; reset gives the initial state.
SucceededIds == {i.id : i \in {j \in PaymentIntents : j.status = "succeeded"}}

C28_PaymentState ==
    (hook # NoHook /\ hook.kind = "usePayment") =>
        LET st == hook.state
            last == hook.last
        IN  /\ ~(st.isProcessing /\ st.isSuccess)
            /\ st.isSuccess => st.error = NULL /\ st.paymentIntentId \in SucceededIds
            /\ (last.answer.kind = "resolved" /\ last.answer.error.present) =>
                  /\ st.error = IF last.answer.error.message = UNDEF THEN "Payment failed"
                                ELSE last.answer.error.message
                  /\ ~st.isSuccess
                  /\ last.onError = Called(hook)
                  /\ last.onSuccess = 0
            /\ (last.answer.kind = "resolved" /\ ~last.answer.error.present
                  /\ last.answer.intent.status # "succeeded") =>
                  ~st.isSuccess /\ st.error = NULL
            /\ last.op = "reset" => st = InitialPayment

\* a payment succeeds while another call is still awaiting its confirmation
C28_Witness ==
    /\ hook # NoHook
    /\ hook.kind = "usePayment"
    /\ hook.callbacks
    /\ hook.pending = 1
    /\ hook.state = [isProcessing |-> FALSE, isSuccess |-> TRUE, error |-> NULL,
                     paymentIntentId |-> "pi_123"]
    /\ hook.last.onSuccess = 1

\* C29 (as claimed): every processPayment / confirmSetup call that set
\* isProcessing to true sets it back to false, whatever the outcome of
\* stripe.confirmPayment / stripe.confirmSetup, a rejection included: a call
\* that is over has reset the flag, and the flag is false when no call is in
\* flight.
C29_ProcessingCleared ==
    hook # NoHook =>
        /\ hook.last.answer.kind \in {"resolved", "rejected"} => ~hook.state.isProcessing
        /\ hook.pending = 0 => ~hook.state.isProcessing

\* ---------------------------------------------------------------- specification
Init ==
    /\ stripeInstance = NoInstance
    /\ currentConfig = NoConfig
    /\ config = NoWebhookConfig
    /\ webhookSecret = UNDEF
    /\ ctorError = NoError
    /\ ctorArg = NoWebhookConfig
    /\ req = NoReq
    /\ pc = "idle"
    /\ event = NoEvent
    /\ calls = <<>>
    /\ dispatch = NotSettled
    /\ response = NoResponse
    /\ console = <<>>
    /\ reader = NoReader
    /\ twin = NoTwin
    /\ invocation = NoInvocation
    /\ trace = <<>>
    /\ outcome = NoOutcome
    /\ remote = Unset
    /\ deliveries = <<>>
    /\ other = NoDispatch
    /\ hook = NoHook

Next ==
    \/ \E s \in GlobalSecrets : initStripe([secretKey |-> "sk_test_mock", webhookSecret |-> s])
    \/ \E cfg \in WebhookConfigs : createWebhookHandler(cfg)
    \/ \E b \in Bodies, s \in Signatures : Dispatch(b, s)
    \/ OnErrorVerificationDone
    \/ HandlerReturns
    \/ \E e \in HandlerErrors : HandlerThrows(e)
    \/ OnErrorHandlerDone
    \/ OnUnhandledEventDone
    \/ \E r \in NextRequests : POST(r) \/ POST_other(r)
    \/ POST_text
    \/ POST_text_other
    \/ POST_textFails
    \/ \E r \in PagesRequests : webhookRoute(r)
    \/ \E n \in ChunkSizes : StreamData(n)
    \/ StreamEnd
    \/ StreamFails
    \/ webhookRoute_body
    \/ AdapterResult
    \/ Finish

Spec == Init /\ [][Next]_vars

\* the server functions, the actions of createActions and the route helpers
ServerNext ==
    \/ \E s \in GlobalSecrets : initStripe([secretKey |-> "sk_test_mock", webhookSecret |-> s])
    \/ \E fn \in ServerFunctions \cup ListFunctions : \E input \in InputsOf(fn) :
           Invoke(fn, input)
    \/ \E fn \in ServerFunctions : \E input \in InputsOf(fn) : Action(fn, input)
    \/ \E fn \in RouteFunctions, b \in BOOLEAN : RoutePOST(fn, b)
    \/ \E r \in AuthorizeResults : AuthorizeReturns(r)
    \/ \E e \in AuthorizeErrors : AuthorizeThrows(e)
    \/ \E input \in AllInputs : JsonResolves(input)
    \/ JsonRejects
    \/ \E input \in AllInputs : BeforeCreateResolves(input)
    \/ \E e \in AuthorizeErrors : BeforeCreateRejects(e)
    \/ StripeResolves
    \/ \E e \in StripeRejections : StripeRejects(e)
    \/ Return

ServerSpec == Init /\ [][ServerNext]_vars

\* the client hooks
ClientNext ==
    \/ \E kind \in HookKinds, version \in {1, 2}, callbacks \in BOOLEAN :
           Mount(kind, version, callbacks)
    \/ StripeLoads
    \/ \E u \in ReturnUrls : processPayment(u)
    \/ \E u \in ReturnUrls : confirmSetup(u)
    \/ \E a \in PaymentAnswers : confirmPaymentResolves(a)
    \/ \E a \in SetupAnswers : confirmSetupResolves(a)
    \/ confirmRejects
    \/ reset

ClientSpec == Init /\ [][ClientNext]_vars

\* one dispatcher given successive deliveries
DeliveryNext ==
    \/ initStripe([secretKey |-> "sk_test_mock", webhookSecret |-> UNDEF])
    \/ \E cfg \in DeliveryConfigs : createWebhookHandler(cfg)
    \/ \E s \in Signatures : Dispatch(Body(8, 0), s)
    \/ OnErrorVerificationDone
    \/ HandlerReturns
    \/ \E e \in HandlerErrors : HandlerThrows(e)
    \/ OnErrorHandlerDone
    \/ Delivered

DeliverySpec == Init /\ [][DeliveryNext]_vars

\* one dispatcher called twice concurrently
ConcurrentNext ==
    \/ initStripe([secretKey |-> "sk_test_mock", webhookSecret |-> UNDEF])
    \/ \E cfg \in ConcurrentConfigs : createWebhookHandler(cfg)
    \/ \E s \in Signatures : Dispatch(Body(8, 0), s)
    \/ OnErrorVerificationDone
    \/ HandlerReturns
    \/ \E e \in HandlerErrors : HandlerThrows(e)
    \/ OnErrorHandlerDone
    \/ OnUnhandledEventDone
    \/ Switch

ConcurrentSpec == Init /\ [][ConcurrentNext]_vars

\* two dispatchers in one process, given the same request one after the other
TwinNext ==
    \/ \E s \in GlobalSecrets : initStripe([secretKey |-> "sk_test_mock", webhookSecret |-> s])
    \/ \E cfg \in WebhookConfigs : createWebhookHandler(cfg)
    \/ \E k \in ConfigSecrets : createSecondHandler([ctorArg EXCEPT !.secret = k])
    \/ \E b \in TwinBodies, s \in Signatures : FirstDispatch(b, s)
    \/ \E r \in TwinRequests : FirstPOST(r)
    \/ SecondDispatcher
    \/ SecondDispatch
    \/ SecondPOST
    \/ OnErrorVerificationDone
    \/ HandlerReturns
    \/ \E e \in HandlerErrors : HandlerThrows(e)
    \/ OnErrorHandlerDone
    \/ OnUnhandledEventDone
    \/ POST_text
    \/ POST_text_other
    \/ POST_textFails
    \/ AdapterResult
    \/ FirstFinish

TwinSpec == Init /\ [][TwinNext]_vars
====
